---------------------------- MODULE Spec2Model ----------------------------
(***************************************************************************)
(* Robot fleet GraphQL API (robot/models.py, robot/schema.py).             *)
(*                                                                         *)
(* The state is the relational database behind the resolvers: one table    *)
(* per Django model, each a function from primary key to row.  Every       *)
(* resolver is a pure operator over the database (and the wall clock);     *)
(* an action applies one resolver to inputs drawn from bounded sets and    *)
(* records the call, its return value and the database it ran against.     *)
(*                                                                         *)
(* Encodings                                                               *)
(*   Optional values (Python None / a value): None == <<>>, Some(v) ==     *)
(*   <<v>>.  GraphQL input fields that default to None and nullable        *)
(*   columns both use it.                                                  *)
(*   Text matched with icontains (serial, model, location) is a sequence   *)
(*   of one-character strings; text compared exactly (status, metric       *)
(*   name, ...) is a TLA+ string, "" being the empty string.               *)
(*   strawberry.ID is a string: a positive number n stands for the ID      *)
(*   "n"; EmptyID stands for the ID "" (the only falsy ID, and not a       *)
(*   number, so a primary-key lookup of it raises ValueError).             *)
(*   datetime is a natural number of clock ticks; float and Decimal        *)
(*   columns take small integers.  JSON values are named by their text.    *)
(***************************************************************************)
EXTENDS Integers, Sequences, FiniteSets, TLC

VARIABLES db, now, last, steps, calls

vars == <<db, now, last, steps, calls>>

-----------------------------------------------------------------------------
(* Python values *)

None == <<>>
Some(v) == <<v>>
IsNone(o) == o = None
Val(o) == o[1]

EmptyID == 0

\* bool(x) of an optional str given as a TLA+ string
TruthyStr(o) == o # None /\ Val(o) # ""
\* bool(x) of an optional list, or of an optional str given as a sequence
TruthySeq(o) == o # None /\ Val(o) # <<>>
\* bool(x) of an optional strawberry.ID
TruthyID(o) == o # None /\ Val(o) # EmptyID
\* JSON values whose Python form is falsy
JsonFalsy == {"{}", "[]", "0", "\"\"", "false"}
TruthyJson(o) == o # None /\ Val(o) \notin JsonFalsy

\* x or default
StrOr(o, default) == IF TruthyStr(o) THEN Val(o) ELSE default
SeqOr(o, default) == IF TruthySeq(o) THEN Val(o) ELSE default
JsonOr(o, default) == IF TruthyJson(o) THEN Val(o) ELSE default
\* a datetime is always truthy
TimeOr(o, default) == IF o # None THEN Val(o) ELSE default

\* x if x is not None else old
Provided(o, old) == IF o # None THEN Val(o) ELSE old

-----------------------------------------------------------------------------
(* Tables *)

Extend(f, k, v) == [x \in DOMAIN f \cup {k} |-> IF x = k THEN v ELSE f[x]]
Remove(f, ks) == [x \in DOMAIN f \ ks |-> f[x]]
EmptyTable == [x \in {} |-> 0]

EmptyDB ==
  [robots |-> EmptyTable, tasks |-> EmptyTable, telemetry |-> EmptyTable,
   maintenance |-> EmptyTable, predictions |-> EmptyTable,
   nextId |-> [robots |-> 1, tasks |-> 1, telemetry |-> 1,
               maintenance |-> 1, predictions |-> 1]]

\* enumerations.py
RobotStatus == {"IDLE", "ACTIVE", "OFFLINE", "ERROR", "MAINTENANCE"}
TaskStatus == {"PENDING", "ASSIGNED", "RUNNING", "COMPLETED", "FAILED", "CANCELLED"}

\* What a resolver hands back: a value, or the exception it raised.
Return(d, v) == [db |-> d, result |-> [ok |-> TRUE, value |-> v, error |-> ""]]
Raise(d, e) == [db |-> d, result |-> [ok |-> FALSE, value |-> None, error |-> e]]

\* Model.objects.get(pk=id): the exception it raises, "" when the row is there
GetError(table, id) ==
  IF id = EmptyID THEN "ValueError"
  ELSE IF id \notin DOMAIN table THEN "DoesNotExist"
  ELSE ""

-----------------------------------------------------------------------------
(* Robot mutations *)

\* Variant: serial declared without unique=True
SerialTaken_off(d, serial, self) == FALSE

\* unique=True on Robot.serial: another row already holds this serial
SerialTaken(d, serial, self) ==
  \E r \in DOMAIN d.robots \ self : d.robots[r].serial = serial

\* Variant: status stored as given, without the IDLE default
NewRobot_no_default(data, t) ==
  [serial |-> data.serial,
   model |-> data.model,
   capabilities |-> SeqOr(data.capabilities, <<>>),
   location |-> SeqOr(data.location, <<>>),
   status |-> StrOr(data.status, ""),
   firmware_version |-> StrOr(data.firmware_version, ""),
   last_seen |-> None,
   created_at |-> t,
   updated_at |-> t]

\* The row Robot.objects.create(...) inserts (lines 1388-1395); last_seen
\* takes the column default, created_at and updated_at the time of the insert
NewRobot(data, t) ==
  [serial |-> data.serial,
   model |-> data.model,
   capabilities |-> SeqOr(data.capabilities, <<>>),
   location |-> SeqOr(data.location, <<>>),
   status |-> StrOr(data.status, "IDLE"),
   firmware_version |-> StrOr(data.firmware_version, ""),
   last_seen |-> None,
   created_at |-> t,
   updated_at |-> t]

create_robot(d, data, t) ==
  IF SerialTaken(d, data.serial, {}) THEN Raise(d, "IntegrityError")
  ELSE
    LET id == d.nextId.robots
    IN Return([d EXCEPT !.robots = Extend(@, id, NewRobot(data, t)),
                        !.nextId.robots = id + 1], id)

\* Variant: location tested for truth, so an empty location is not written
UpdatedRobot_truthy(old, data, t) ==
  [serial |-> Provided(data.serial, old.serial),
   model |-> Provided(data.model, old.model),
   capabilities |-> Provided(data.capabilities, old.capabilities),
   location |-> SeqOr(data.location, old.location),
   status |-> Provided(data.status, old.status),
   firmware_version |-> Provided(data.firmware_version, old.firmware_version),
   last_seen |-> IF data.last_seen # None THEN data.last_seen ELSE old.last_seen,
   created_at |-> old.created_at,
   updated_at |-> t]

\* The row robot.save() writes after the assignments of lines 1415-1428;
\* updated_at is auto_now
UpdatedRobot(old, data, t) ==
  [serial |-> Provided(data.serial, old.serial),
   model |-> Provided(data.model, old.model),
   capabilities |-> Provided(data.capabilities, old.capabilities),
   location |-> Provided(data.location, old.location),
   status |-> Provided(data.status, old.status),
   firmware_version |-> Provided(data.firmware_version, old.firmware_version),
   last_seen |-> IF data.last_seen # None THEN data.last_seen ELSE old.last_seen,
   created_at |-> old.created_at,
   updated_at |-> t]

update_robot(d, data, t) ==
  IF GetError(d.robots, data.id) # "" THEN Raise(d, GetError(d.robots, data.id))
  ELSE
    LET robot == UpdatedRobot(d.robots[data.id], data, t)
    IN IF SerialTaken(d, robot.serial, {data.id}) THEN Raise(d, "IntegrityError")
       ELSE Return([d EXCEPT !.robots[data.id] = robot], data.id)

\* Variant: Task.assigned_robot left as it is when the robot goes
CascadeRobot_tasks_kept(d, id) ==
  [d EXCEPT
     !.robots = Remove(@, {id}),
     !.telemetry = Remove(@, {p \in DOMAIN @ : @[p].robot = id}),
     !.maintenance = Remove(@, {e \in DOMAIN @ : @[e].robot = id}),
     !.predictions = Remove(@, {p \in DOMAIN @ : @[p].robot = id})]

\* Variant: CASCADE on Task.assigned_robot as well
CascadeRobot_tasks_too(d, id) ==
  [d EXCEPT
     !.robots = Remove(@, {id}),
     !.telemetry = Remove(@, {p \in DOMAIN @ : @[p].robot = id}),
     !.maintenance = Remove(@, {e \in DOMAIN @ : @[e].robot = id}),
     !.predictions = Remove(@, {p \in DOMAIN @ : @[p].robot = id}),
     !.tasks = Remove(@, {k \in DOMAIN @ : @[k].assigned_robot = Some(id)})]

\* on_delete of the foreign keys to Robot: CASCADE for telemetry points,
\* maintenance events and predictions, SET_NULL for Task.assigned_robot
CascadeRobot(d, id) ==
  [d EXCEPT
     !.robots = Remove(@, {id}),
     !.telemetry = Remove(@, {p \in DOMAIN @ : @[p].robot = id}),
     !.maintenance = Remove(@, {e \in DOMAIN @ : @[e].robot = id}),
     !.predictions = Remove(@, {p \in DOMAIN @ : @[p].robot = id}),
     !.tasks = [k \in DOMAIN @ |->
                  IF @[k].assigned_robot = Some(id)
                  THEN [@[k] EXCEPT !.assigned_robot = None]
                  ELSE @[k]]]

delete_robot(d, id) ==
  IF GetError(d.robots, id) = "DoesNotExist" THEN Return(d, FALSE)
  ELSE IF GetError(d.robots, id) # "" THEN Raise(d, GetError(d.robots, id))
  ELSE Return(CascadeRobot(d, id), TRUE)

-----------------------------------------------------------------------------
(* Task mutations *)

create_task(d, data, t) ==
  IF data.assigned_robot_id # None /\ GetError(d.robots, Val(data.assigned_robot_id)) # ""
  THEN Raise(d, GetError(d.robots, Val(data.assigned_robot_id)))
  ELSE
    LET id == d.nextId.tasks
        task == [required_capabilities |-> data.required_capabilities,
                 priority |-> data.priority,
                 deadline |-> data.deadline,
                 assigned_robot |-> data.assigned_robot_id,
                 status |-> StrOr(data.status, "PENDING"),
                 created_at |-> t]
    IN Return([d EXCEPT !.tasks = Extend(@, id, task),
                        !.nextId.tasks = id + 1], id)

\* lines 1480-1484: the robot the new assigned_robot_id resolves to
\* (None for the empty ID), or the exception of the lookup
ResolveAssigned(d, o, old) ==
  IF o = None THEN [error |-> "", robot |-> old]
  ELSE IF TruthyID(o)
       THEN [error |-> GetError(d.robots, Val(o)), robot |-> o]
       ELSE [error |-> "", robot |-> None]

\* Variant: deadline assigned whether supplied or not
UpdatedTask_overwrite(old, data, robot) ==
  [required_capabilities |->
     Provided(data.required_capabilities, old.required_capabilities),
   priority |-> Provided(data.priority, old.priority),
   deadline |-> data.deadline,
   assigned_robot |-> robot,
   status |-> Provided(data.status, old.status),
   created_at |-> old.created_at]

\* The row task.save() writes after the assignments of lines 1474-1486
UpdatedTask(old, data, robot) ==
  [required_capabilities |->
     Provided(data.required_capabilities, old.required_capabilities),
   priority |-> Provided(data.priority, old.priority),
   deadline |-> IF data.deadline # None THEN data.deadline ELSE old.deadline,
   assigned_robot |-> robot,
   status |-> Provided(data.status, old.status),
   created_at |-> old.created_at]

\* Variant: the other fields saved before the robot is looked up
update_task_saves_first(d, data) ==
  IF GetError(d.tasks, data.id) # "" THEN Raise(d, GetError(d.tasks, data.id))
  ELSE
    LET old == d.tasks[data.id]
        res == ResolveAssigned(d, data.assigned_robot_id, old.assigned_robot)
    IN IF res.error # ""
       THEN Raise([d EXCEPT !.tasks[data.id] = UpdatedTask(old, data, old.assigned_robot)],
                  res.error)
       ELSE Return([d EXCEPT !.tasks[data.id] = UpdatedTask(old, data, res.robot)], data.id)

\* Mutation.update_task: Task.objects.get, the assignments, task.save()
update_task(d, data) ==
  IF GetError(d.tasks, data.id) # "" THEN Raise(d, GetError(d.tasks, data.id))
  ELSE
    LET old == d.tasks[data.id]
        res == ResolveAssigned(d, data.assigned_robot_id, old.assigned_robot)
    IN IF res.error # "" THEN Raise(d, res.error)
       ELSE Return([d EXCEPT !.tasks[data.id] = UpdatedTask(old, data, res.robot)], data.id)

\* Variant: no except clause around Task.objects.get
delete_task_raises(d, id) ==
  IF GetError(d.tasks, id) # "" THEN Raise(d, GetError(d.tasks, id))
  ELSE Return([d EXCEPT !.tasks = Remove(@, {id})], TRUE)

\* Mutation.delete_task: DoesNotExist is caught and answered with False
delete_task(d, id) ==
  IF GetError(d.tasks, id) = "DoesNotExist" THEN Return(d, FALSE)
  ELSE IF GetError(d.tasks, id) # "" THEN Raise(d, GetError(d.tasks, id))
  ELSE Return([d EXCEPT !.tasks = Remove(@, {id})], TRUE)

-----------------------------------------------------------------------------
(* Telemetry mutations *)

create_telemetry(d, data, t) ==
  IF GetError(d.robots, data.robot_id) # "" THEN Raise(d, GetError(d.robots, data.robot_id))
  ELSE
    LET id == d.nextId.telemetry
        point == [robot |-> data.robot_id,
                  metric_name |-> data.metric_name,
                  metric_value |-> data.metric_value,
                  timestamp |-> TimeOr(data.timestamp, t),
                  metadata |-> JsonOr(data.metadata, "{}")]
    IN Return([d EXCEPT !.telemetry = Extend(@, id, point),
                        !.nextId.telemetry = id + 1], id)

\* Variant: a missing row is skipped and the id returned
update_telemetry_silent(d, data) ==
  IF data.id = EmptyID THEN Raise(d, "ValueError")
  ELSE IF data.id \notin DOMAIN d.telemetry THEN Return(d, data.id)
  ELSE
    LET old == d.telemetry[data.id]
        point == [robot |-> old.robot,
                  metric_name |-> Provided(data.metric_name, old.metric_name),
                  metric_value |-> Provided(data.metric_value, old.metric_value),
                  timestamp |-> Provided(data.timestamp, old.timestamp),
                  metadata |-> Provided(data.metadata, old.metadata)]
    IN Return([d EXCEPT !.telemetry[data.id] = point], data.id)

\* Mutation.update_telemetry: TelemetryPoint.objects.get raises for a missing row
update_telemetry(d, data) ==
  IF GetError(d.telemetry, data.id) # "" THEN Raise(d, GetError(d.telemetry, data.id))
  ELSE
    LET old == d.telemetry[data.id]
        point == [robot |-> old.robot,
                  metric_name |-> Provided(data.metric_name, old.metric_name),
                  metric_value |-> Provided(data.metric_value, old.metric_value),
                  timestamp |-> Provided(data.timestamp, old.timestamp),
                  metadata |-> Provided(data.metadata, old.metadata)]
    IN Return([d EXCEPT !.telemetry[data.id] = point], data.id)

delete_telemetry(d, id) ==
  IF GetError(d.telemetry, id) = "DoesNotExist" THEN Return(d, FALSE)
  ELSE IF GetError(d.telemetry, id) # "" THEN Raise(d, GetError(d.telemetry, id))
  ELSE Return([d EXCEPT !.telemetry = Remove(@, {id})], TRUE)

-----------------------------------------------------------------------------
(* Maintenance event mutations *)

create_maintenance_event(d, data, t) ==
  IF GetError(d.robots, data.robot_id) # "" THEN Raise(d, GetError(d.robots, data.robot_id))
  ELSE
    LET id == d.nextId.maintenance
        event == [robot |-> data.robot_id,
                  type |-> data.type,
                  notes |-> StrOr(data.notes, ""),
                  cost |-> data.cost,
                  timestamp |-> TimeOr(data.timestamp, t)]
    IN Return([d EXCEPT !.maintenance = Extend(@, id, event),
                        !.nextId.maintenance = id + 1], id)

update_maintenance_event(d, data) ==
  IF GetError(d.maintenance, data.id) # "" THEN Raise(d, GetError(d.maintenance, data.id))
  ELSE
    LET old == d.maintenance[data.id]
        event == [robot |-> old.robot,
                  type |-> Provided(data.type, old.type),
                  notes |-> Provided(data.notes, old.notes),
                  cost |-> IF data.cost # None THEN data.cost ELSE old.cost,
                  timestamp |-> Provided(data.timestamp, old.timestamp)]
    IN Return([d EXCEPT !.maintenance[data.id] = event], data.id)

delete_maintenance_event(d, id) ==
  IF GetError(d.maintenance, id) = "DoesNotExist" THEN Return(d, FALSE)
  ELSE IF GetError(d.maintenance, id) # "" THEN Raise(d, GetError(d.maintenance, id))
  ELSE Return([d EXCEPT !.maintenance = Remove(@, {id})], TRUE)

-----------------------------------------------------------------------------
(* Prediction mutations *)

create_prediction(d, data, t) ==
  IF GetError(d.robots, data.robot_id) # "" THEN Raise(d, GetError(d.robots, data.robot_id))
  ELSE
    LET id == d.nextId.predictions
        prediction == [robot |-> data.robot_id,
                       prediction_type |-> data.prediction_type,
                       value |-> data.value,
                       model_version |-> data.model_version,
                       timestamp |-> TimeOr(data.timestamp, t)]
    IN Return([d EXCEPT !.predictions = Extend(@, id, prediction),
                        !.nextId.predictions = id + 1], id)

update_prediction(d, data) ==
  IF GetError(d.predictions, data.id) # "" THEN Raise(d, GetError(d.predictions, data.id))
  ELSE
    LET old == d.predictions[data.id]
        prediction == [robot |-> old.robot,
                       prediction_type |-> Provided(data.prediction_type, old.prediction_type),
                       value |-> Provided(data.value, old.value),
                       model_version |-> Provided(data.model_version, old.model_version),
                       timestamp |-> Provided(data.timestamp, old.timestamp)]
    IN Return([d EXCEPT !.predictions[data.id] = prediction], data.id)

delete_prediction(d, id) ==
  IF GetError(d.predictions, id) = "DoesNotExist" THEN Return(d, FALSE)
  ELSE IF GetError(d.predictions, id) # "" THEN Raise(d, GetError(d.predictions, id))
  ELSE Return([d EXCEPT !.predictions = Remove(@, {id})], TRUE)

-----------------------------------------------------------------------------
(* Batch mutations *)

\* Variant: every stored robot updated, whatever robot_ids holds
bulk_update_all_robots(d, robot_ids, new_status, t) ==
  IF EmptyID \in robot_ids THEN Raise(d, "ValueError")
  ELSE Return([d EXCEPT !.robots =
                 [r \in DOMAIN @ |-> [@[r] EXCEPT !.status = new_status, !.updated_at = t]]],
              DOMAIN d.robots)

\* Mutation.bulk_update_robot_statuses: every robot of pk__in=robot_ids gets
\* the status and is saved (auto_now); the robots updated are returned.  An
\* id that is no number makes the filter raise ValueError.
bulk_update_robot_statuses(d, robot_ids, new_status, t) ==
  IF EmptyID \in robot_ids THEN Raise(d, "ValueError")
  ELSE
    LET robots_ == robot_ids \cap DOMAIN d.robots
    IN Return([d EXCEPT !.robots =
                 [r \in DOMAIN @ |->
                    IF r \in robots_
                    THEN [@[r] EXCEPT !.status = new_status, !.updated_at = t]
                    ELSE @[r]]],
              robots_)

\* location_prefix: str = "Factory"
Factory == <<"F", "a", "c", "t", "o", "r", "y">>

\* The row the lambda of create_robots_from_templates inserts for template tpl
TemplateRobot(tpl, location_prefix, t) ==
  [NewRobot(tpl, t) EXCEPT
     !.location = IF TruthySeq(tpl.location)
                  THEN location_prefix \o <<" ", "-", " ">> \o Val(tpl.location)
                  ELSE location_prefix]

\* map(lambda t: Robot.objects.create(...), templates) from template i on;
\* created holds the keys of the robots made so far.  There is no
\* transaction around the creates: the rows made before one that raises stay.
RECURSIVE CreateFrom(_, _, _, _, _, _)
CreateFrom(d, templates, i, location_prefix, t, created) ==
  IF i > Len(templates) THEN Return(d, created)
  ELSE IF SerialTaken(d, templates[i].serial, {}) THEN Raise(d, "IntegrityError")
  ELSE
    LET id == d.nextId.robots
    IN CreateFrom([d EXCEPT
                     !.robots = Extend(@, id, TemplateRobot(templates[i], location_prefix, t)),
                     !.nextId.robots = id + 1],
                  templates, i + 1, location_prefix, t, Append(created, id))

\* Variant: the creates wrapped in one transaction
create_robots_atomic(d, templates, location_prefix, t) ==
  LET out == CreateFrom(d, templates, 1, location_prefix, t, <<>>)
  IN IF out.result.ok THEN out ELSE Raise(d, out.result.error)

\* Mutation.create_robots_from_templates
create_robots_from_templates(d, templates, location_prefix, t) ==
  CreateFrom(d, templates, 1, location_prefix, t, <<>>)

\* Code point of a character
Code(c) ==
  CASE c = "A" -> 65 [] c = "B" -> 66 [] c = "C" -> 67 [] c = "F" -> 70
    [] c = "P" -> 80 [] c = "a" -> 97 [] c = "b" -> 98 [] c = "c" -> 99
    [] c = "d" -> 100 [] c = "e" -> 101 [] c = "m" -> 109 [] c = "x" -> 120
    [] OTHER -> 32

\* a sorts before b as text, compared code point by code point
TextBefore(a, b) ==
  \E i \in 1..(Len(b)) :
    /\ \A j \in 1..(i - 1) : j <= Len(a) /\ a[j] = b[j]
    /\ i - 1 <= Len(a)
    /\ i > Len(a) \/ Code(a[i]) < Code(b[i])

\* Variant: the robots listed by primary key
BySerial_by_id(d, R) ==
  CHOOSE q \in [1..Cardinality(R) -> R] : \A i, j \in DOMAIN q : i < j => q[i] < q[j]

\* the one list of the robots R in Meta.ordering = ["serial"]
BySerial(d, R) ==
  CHOOSE q \in [1..Cardinality(R) -> R] :
    /\ \A i, j \in DOMAIN q : i # j => q[i] # q[j]
    /\ \A i, j \in DOMAIN q : i < j => ~TextBefore(d.robots[q[j]].serial, d.robots[q[i]].serial)

\* task a comes strictly before task b in Meta.ordering =
\* ["-priority", "deadline", "created_at"]; nulls_first is where the storage
\* engine puts a NULL deadline
TaskBefore(d, nulls_first, a, b) ==
  LET x == d.tasks[a]
      y == d.tasks[b]
      deadline_before ==
        IF x.deadline = None THEN y.deadline # None /\ nulls_first
        ELSE IF y.deadline = None THEN ~nulls_first
        ELSE Val(x.deadline) < Val(y.deadline)
  IN \/ x.priority > y.priority
     \/ x.priority = y.priority /\ deadline_before
     \/ x.priority = y.priority /\ x.deadline = y.deadline /\ x.created_at < y.created_at

\* the lists of the tasks S in Meta.ordering; tasks the ordering does not
\* tell apart come in an order the storage engine chooses
TaskOrders(d, S) ==
  {q \in [1..Cardinality(S) -> S] :
     /\ \A i, j \in DOMAIN q : i # j => q[i] # q[j]
     /\ \E nulls_first \in BOOLEAN :
          \A i, j \in DOMAIN q : i < j => ~TaskBefore(d, nulls_first, q[j], q[i])}

\* Variant: any() in place of all()
HasAll_any(capabilities, required) ==
  \E i \in DOMAIN required : \E j \in DOMAIN capabilities : capabilities[j] = required[i]

\* all(cap in r.capabilities for cap in task.required_capabilities)
HasAll(capabilities, required) ==
  \A i \in DOMAIN required : \E j \in DOMAIN capabilities : capabilities[j] = required[i]

\* r.assigned_tasks.filter(status__in=[...]).count() against the database d
Load(d, r) ==
  Cardinality({k \in DOMAIN d.tasks :
                 /\ d.tasks[k].assigned_robot = Some(r)
                 /\ d.tasks[k].status \in {"PENDING", "ASSIGNED", "RUNNING"}})

\* assign_task for the tasks q[i], q[i+1], ... in turn.  start is the
\* database the call loaded its tasks and available robots from, available
\* the robots in list order; min() returns the first robot of least load.
RECURSIVE AssignFrom(_, _, _, _, _)
AssignFrom(d, start, q, i, available) ==
  IF i > Len(q) THEN Return(d, q)
  ELSE
    LET task == start.tasks[q[i]]
        matching_robots ==
          {n \in DOMAIN available :
             HasAll(start.robots[available[n]].capabilities, task.required_capabilities)}
    IN IF matching_robots = {} THEN AssignFrom(d, start, q, i + 1, available)
       ELSE
         LET best == CHOOSE n \in matching_robots :
                       \A m \in matching_robots :
                         \/ Load(d, available[n]) < Load(d, available[m])
                         \/ Load(d, available[n]) = Load(d, available[m]) /\ n <= m
         IN AssignFrom([d EXCEPT !.tasks[q[i]] =
                          [task EXCEPT !.assigned_robot = Some(available[best]),
                                       !.status = "ASSIGNED"]],
                       start, q, i + 1, available)

\* Variant: the tasks selected by id alone, whatever their status
assign_tasks_any_status(d, task_ids) ==
  IF EmptyID \in task_ids THEN {Raise(d, "ValueError")}
  ELSE
    LET tasks_ == task_ids \cap DOMAIN d.tasks
        available_robots ==
          BySerial(d, {r \in DOMAIN d.robots : d.robots[r].status \in {"IDLE", "ACTIVE"}})
    IN {AssignFrom(d, d, q, 1, available_robots) : q \in TaskOrders(d, tasks_)}

\* Mutation.assign_tasks_to_robots_by_capability: the outcomes it can have,
\* one per order in which the storage engine can list the selected tasks.
\* An id that is no number makes the filter raise ValueError.
assign_tasks_to_robots_by_capability(d, task_ids) ==
  IF EmptyID \in task_ids THEN {Raise(d, "ValueError")}
  ELSE
    LET tasks_ == {k \in task_ids \cap DOMAIN d.tasks : d.tasks[k].status = "PENDING"}
        available_robots ==
          BySerial(d, {r \in DOMAIN d.robots : d.robots[r].status \in {"IDLE", "ACTIVE"}})
    IN {AssignFrom(d, d, q, 1, available_robots) : q \in TaskOrders(d, tasks_)}

\* timedelta(days=1) in the model's unit of time, the hour
HoursPerDay == 24

\* Mutation.cleanup_old_telemetry at time t; metric_names None is a request
\* that omits it.  `if metric_names:` is false for None and for [].
cleanup_old_telemetry(d, days_to_keep, metric_names, t) ==
  LET cutoff_date == t - days_to_keep * HoursPerDay
      qs0 == {p \in DOMAIN d.telemetry : d.telemetry[p].timestamp < cutoff_date}
      qs == IF TruthySeq(metric_names)
            THEN {p \in qs0 : \E i \in DOMAIN Val(metric_names) :
                                d.telemetry[p].metric_name = Val(metric_names)[i]}
            ELSE qs0
  IN Return([d EXCEPT !.telemetry = Remove(@, qs)], Cardinality(qs))

-----------------------------------------------------------------------------
(* Query resolvers *)

\* ASCII lower case of one character
LowerChar(c) ==
  CASE c = "A" -> "a"
    [] c = "B" -> "b"
    [] c = "C" -> "c"
    [] OTHER -> c

Lower(s) == [i \in 1..Len(s) |-> LowerChar(s[i])]

\* field__icontains=needle: needle occurs in the field, letter case ignored
IContains(hay, needle) ==
  \E i \in 0..(Len(hay) - Len(needle)) :
    \A j \in 1..Len(needle) : LowerChar(hay[i + j]) = LowerChar(needle[j])

\* Variant: the filters chained with elif, so only the first one present applies
robots_elif(d, args) ==
  LET qs0 == DOMAIN d.robots
  IN IF TruthySeq(args.model)
     THEN {r \in qs0 : IContains(d.robots[r].model, Val(args.model))}
     ELSE IF TruthyStr(args.status)
     THEN {r \in qs0 : d.robots[r].status = Val(args.status)}
     ELSE IF TruthySeq(args.location)
     THEN {r \in qs0 : IContains(d.robots[r].location, Val(args.location))}
     ELSE IF TruthySeq(args.serial)
     THEN {r \in qs0 : IContains(d.robots[r].serial, Val(args.serial))}
     ELSE qs0

\* Query.robots: the primary keys of the rows of list(qs)
robots(d, args) ==
  LET qs0 == DOMAIN d.robots
      qs1 == IF TruthySeq(args.model)
             THEN {r \in qs0 : IContains(d.robots[r].model, Val(args.model))}
             ELSE qs0
      qs2 == IF TruthyStr(args.status)
             THEN {r \in qs1 : d.robots[r].status = Val(args.status)}
             ELSE qs1
      qs3 == IF TruthySeq(args.location)
             THEN {r \in qs2 : IContains(d.robots[r].location, Val(args.location))}
             ELSE qs2
      qs4 == IF TruthySeq(args.serial)
             THEN {r \in qs3 : IContains(d.robots[r].serial, Val(args.serial))}
             ELSE qs3
  IN qs4

\* Variant: the numeric filters tested for truth, not against None
tasks_truthy(d, args) ==
  LET qs0 == DOMAIN d.tasks
      qs1 == IF TruthyStr(args.status)
             THEN {k \in qs0 : d.tasks[k].status = Val(args.status)}
             ELSE qs0
      qs2 == IF args.priority_min # None /\ Val(args.priority_min) # 0
             THEN {k \in qs1 : d.tasks[k].priority >= Val(args.priority_min)}
             ELSE qs1
      qs3 == IF args.priority_max # None /\ Val(args.priority_max) # 0
             THEN {k \in qs2 : d.tasks[k].priority <= Val(args.priority_max)}
             ELSE qs2
      qs4 == IF TruthyID(args.robot_id)
             THEN {k \in qs3 : d.tasks[k].assigned_robot = args.robot_id}
             ELSE qs3
      qs5 == IF args.has_deadline # None
             THEN IF Val(args.has_deadline)
                  THEN qs4 \ {k \in qs4 : d.tasks[k].deadline = None}
                  ELSE {k \in qs4 : d.tasks[k].deadline = None}
             ELSE qs4
  IN qs5

\* Query.tasks: the primary keys of the rows of list(qs)
tasks(d, args) ==
  LET qs0 == DOMAIN d.tasks
      qs1 == IF TruthyStr(args.status)
             THEN {k \in qs0 : d.tasks[k].status = Val(args.status)}
             ELSE qs0
      qs2 == IF args.priority_min # None
             THEN {k \in qs1 : d.tasks[k].priority >= Val(args.priority_min)}
             ELSE qs1
      qs3 == IF args.priority_max # None
             THEN {k \in qs2 : d.tasks[k].priority <= Val(args.priority_max)}
             ELSE qs2
      qs4 == IF TruthyID(args.robot_id)
             THEN {k \in qs3 : d.tasks[k].assigned_robot = args.robot_id}
             ELSE qs3
      qs5 == IF args.has_deadline # None
             THEN IF Val(args.has_deadline)
                  THEN qs4 \ {k \in qs4 : d.tasks[k].deadline = None}
                  ELSE {k \in qs4 : d.tasks[k].deadline = None}
             ELSE qs4
  IN qs5

\* The filters telemetry_points and telemetry_statistics share
TelemetryFilter(d, args) ==
  LET qs0 == DOMAIN d.telemetry
      qs1 == IF TruthyID(args.robot_id)
             THEN {p \in qs0 : d.telemetry[p].robot = Val(args.robot_id)}
             ELSE qs0
      qs2 == IF TruthyStr(args.metric_name)
             THEN {p \in qs1 : d.telemetry[p].metric_name = Val(args.metric_name)}
             ELSE qs1
      qs3 == IF args.start_date # None
             THEN {p \in qs2 : d.telemetry[p].timestamp >= Val(args.start_date)}
             ELSE qs2
      qs4 == IF args.end_date # None
             THEN {p \in qs3 : d.telemetry[p].timestamp <= Val(args.end_date)}
             ELSE qs3
  IN qs4

\* SQL aggregates over the column values of a set of rows
RECURSIVE AggSum(_, _)
AggSum(col, S) ==
  IF S = {} THEN 0
  ELSE LET x == CHOOSE y \in S : TRUE IN col[x] + AggSum(col, S \ {x})

RECURSIVE AggMin(_, _)
AggMin(col, S) ==
  LET x == CHOOSE y \in S : TRUE
  IN IF S = {x} THEN col[x]
     ELSE LET m == AggMin(col, S \ {x}) IN IF col[x] < m THEN col[x] ELSE m

RECURSIVE AggMax(_, _)
AggMax(col, S) ==
  LET x == CHOOSE y \in S : TRUE
  IN IF S = {x} THEN col[x]
     ELSE LET m == AggMax(col, S \ {x}) IN IF col[x] > m THEN col[x] ELSE m

\* Variant: no qs.exists() test, the aggregates of no rows read as 0
telemetry_statistics_zero_filled(d, args) ==
  LET qs == TelemetryFilter(d, args)
      value == [p \in qs |-> d.telemetry[p].metric_value]
      stamp == [p \in qs |-> d.telemetry[p].timestamp]
  IN IF qs = {}
     THEN Some([count |-> 0, average_value |-> [num |-> 0, den |-> 1],
                min_value |-> 0, max_value |-> 0, latest_timestamp |-> 0])
     ELSE Some([count |-> Cardinality(qs),
                average_value |-> [num |-> AggSum(value, qs), den |-> Cardinality(qs)],
                min_value |-> AggMin(value, qs),
                max_value |-> AggMax(value, qs),
                latest_timestamp |-> AggMax(stamp, qs)])

\* Query.telemetry_statistics.  average_value is the exact quotient
\* num / den of Avg("metric_value"); float(x or 0) of a number x is x.
telemetry_statistics(d, args) ==
  LET qs == TelemetryFilter(d, args)
      value == [p \in qs |-> d.telemetry[p].metric_value]
      stamp == [p \in qs |-> d.telemetry[p].timestamp]
  IN IF qs = {} THEN None
     ELSE Some([count |-> Cardinality(qs),
                average_value |-> [num |-> AggSum(value, qs), den |-> Cardinality(qs)],
                min_value |-> AggMin(value, qs),
                max_value |-> AggMax(value, qs),
                latest_timestamp |-> AggMax(stamp, qs)])

\* Variant: the counts grouped by the statuses the stored robots have
StatusCounts_group_by(d) ==
  [st \in {d.robots[r].status : r \in DOMAIN d.robots} |->
     Cardinality({r \in DOMAIN d.robots : d.robots[r].status = st})]

\* status_counts: one key per choice of Robot.status, counted by a filter
StatusCounts(d) ==
  [st \in RobotStatus |->
     Cardinality({r \in DOMAIN d.robots : d.robots[r].status = st})]

\* Count("assigned_tasks") of a robot
TaskCount(d, r) ==
  Cardinality({k \in DOMAIN d.tasks : d.tasks[k].assigned_robot = Some(r)})

\* Variant: the average taken over every robot, idle ones counted as zero
AverageTasks_all_robots(d) ==
  LET count == [r \in DOMAIN d.robots |-> TaskCount(d, r)]
  IN IF DOMAIN d.robots # {}
     THEN [num |-> AggSum(count, DOMAIN d.robots), den |-> Cardinality(DOMAIN d.robots)]
     ELSE [num |-> 0, den |-> 1]

\* avg_tasks: Avg("task_count") over the robots with task_count > 0, as the
\* exact quotient num / den; 0.0 when there is no such robot
AverageTasks(d) ==
  LET count == [r \in DOMAIN d.robots |-> TaskCount(d, r)]
      robots_with_tasks == {r \in DOMAIN d.robots : count[r] > 0}
  IN IF robots_with_tasks # {}
     THEN [num |-> AggSum(count, robots_with_tasks),
           den |-> Cardinality(robots_with_tasks)]
     ELSE [num |-> 0, den |-> 1]

\* Query.robot_statistics
robot_statistics(d) ==
  [total_robots |-> Cardinality(DOMAIN d.robots),
   robots_by_status |-> StatusCounts(d),
   average_tasks_per_robot |-> AverageTasks(d),
   robots_with_maintenance |->
     Cardinality({r \in DOMAIN d.robots :
                    \E e \in DOMAIN d.maintenance : d.maintenance[e].robot = r})]

\* order_by: the lists of the rows S in ascending order of key.  Rows with
\* equal keys come in an order the storage engine chooses.
OrderBy(S, key) ==
  {q \in [1..Cardinality(S) -> S] :
     /\ \A i, j \in DOMAIN q : i # j => q[i] # q[j]
     /\ \A i, j \in DOMAIN q : i < j => key[q[i]] <= key[q[j]]}

\* qs[:n] of a list
Slice(q, n) == SubSeq(q, 1, IF n < Len(q) THEN n ELSE Len(q))

\* Variant: no status__in filter
overdue_tasks_any_status(d, t) ==
  LET qs == {k \in DOMAIN d.tasks :
               d.tasks[k].deadline # None /\ Val(d.tasks[k].deadline) < t}
  IN OrderBy(qs, [k \in qs |-> Val(d.tasks[k].deadline)])

\* Query.overdue_tasks at time t: the lists it can return.  deadline__lt
\* matches no row whose deadline is NULL.
overdue_tasks(d, t) ==
  LET qs == {k \in DOMAIN d.tasks :
               /\ d.tasks[k].deadline # None /\ Val(d.tasks[k].deadline) < t
               /\ d.tasks[k].status \in {"PENDING", "ASSIGNED", "RUNNING"}}
  IN OrderBy(qs, [k \in qs |-> Val(d.tasks[k].deadline)])

\* limit: int | None = 100
DefaultLimit == 100

\* Query.telemetry_points: the lists it can return; args.limit is the
\* argument the resolver receives (DefaultLimit when the request omits it)
telemetry_points(d, args) ==
  LET qs == TelemetryFilter(d, args)
      ordered == OrderBy(qs, [p \in qs |-> 0 - d.telemetry[p].timestamp])
  IN IF args.limit # None /\ Val(args.limit) # 0
     THEN {Slice(q, Val(args.limit)) : q \in ordered}
     ELSE ordered

\* Query.telemetry_point: the row, None when DoesNotExist is caught, or the
\* exception of the lookup
telemetry_point(d, id) ==
  IF GetError(d.telemetry, id) = "DoesNotExist"
  THEN [ok |-> TRUE, value |-> None, error |-> ""]
  ELSE IF GetError(d.telemetry, id) # ""
  THEN [ok |-> FALSE, value |-> None, error |-> GetError(d.telemetry, id)]
  ELSE [ok |-> TRUE, value |-> Some(d.telemetry[id]), error |-> ""]

\* Query.robots_with_recent_activity at time t: the lists it can return.
\* The related rows are prefetched in their Meta.ordering, telemetry by
\* -timestamp and tasks by -priority, deadline, created_at, and .all()[:1]
\* is the first row of each robot's list.
robots_with_recent_activity(d, hours, t) ==
  LET cutoff_time == t - hours
      linked == {k \in DOMAIN d.tasks : d.tasks[k].assigned_robot # None}
      points(r) == {p \in DOMAIN d.telemetry : d.telemetry[p].robot = r}
      active(r, q) ==
        \/ \E p \in points(r) :
             /\ \A p2 \in points(r) : d.telemetry[p2].timestamp <= d.telemetry[p].timestamp
             /\ d.telemetry[p].timestamp >= cutoff_time
        \/ \E i \in DOMAIN q :
             /\ d.tasks[q[i]].assigned_robot = Some(r)
             /\ \A j \in 1..(i - 1) : d.tasks[q[j]].assigned_robot # Some(r)
             /\ d.tasks[q[i]].created_at >= cutoff_time
        \/ d.robots[r].last_seen # None /\ Val(d.robots[r].last_seen) >= cutoff_time
  IN {BySerial(d, {r \in DOMAIN d.robots : active(r, q)}) : q \in TaskOrders(d, linked)}

\* Query.telemetry_anomalies: the lists it can return.  average is
\* total / n; both sides of the comparison are multiplied by n to stay in
\* the integers.
telemetry_anomalies(d, robot_id, metric_name, threshold_multiplier) ==
  LET qs0 == {p \in DOMAIN d.telemetry : d.telemetry[p].metric_name = metric_name}
      points == IF TruthyID(robot_id)
                THEN {p \in qs0 : d.telemetry[p].robot = Val(robot_id)}
                ELSE qs0
      n == Cardinality(points)
      total == AggSum([p \in points |-> d.telemetry[p].metric_value], points)
      deviation(p) ==
        IF d.telemetry[p].metric_value * n >= total
        THEN d.telemetry[p].metric_value * n - total
        ELSE total - d.telemetry[p].metric_value * n
      anomalies == {p \in points : deviation(p) > total * threshold_multiplier}
  IN IF points = {} THEN {<<>>}
     ELSE OrderBy(anomalies, [p \in anomalies |-> 0 - d.telemetry[p].timestamp])

-----------------------------------------------------------------------------
(* Bounds and input sets *)

\* Mutations per behaviour
MaxOps == 1
\* Rows a table may ever have held (primary keys are never reused)
MaxRows == 3
\* Rows per table of a stored data set the queries are run against
MaxSeedRows == 2

\* IDs a client sends: the empty ID, the keys a table can hold, one it cannot
IDs == {EmptyID} \cup (1..(MaxRows + 1))

\* the fields of an input `data` that are supplied (not None)
Supplied(data, fields) == {f \in fields : data[f] # None}

RobotFields ==
  {"serial", "model", "capabilities", "location", "status", "firmware_version", "last_seen"}
TaskFields == {"required_capabilities", "priority", "deadline", "assigned_robot_id", "status"}
TelemetryFields == {"metric_name", "metric_value", "timestamp", "metadata"}
MaintenanceFields == {"type", "notes", "cost", "timestamp"}
PredictionFields == {"prediction_type", "value", "model_version", "timestamp"}

CreateRobotInputs ==
  [serial : {<<"a">>, <<"c">>},
   model : {<<"m">>},
   capabilities : {None, Some(<<"weld">>)},
   location : {None, Some(<<"x">>)},
   status : {None, Some("ACTIVE")},
   firmware_version : {None, Some("f2")}]

UpdateRobotInputs ==
  {data \in [id : IDs,
             serial : {None, Some(<<>>), Some(<<"B">>)},
             model : {None, Some(<<>>)},
             capabilities : {None, Some(<<>>)},
             location : {None, Some(<<>>)},
             status : {None, Some("")},
             firmware_version : {None, Some("")},
             last_seen : {None, Some(2)}] :
     Cardinality(Supplied(data, RobotFields)) \in {0, 1, 7}}

CreateTaskInputs ==
  [required_capabilities : {<<"weld">>},
   priority : {0, 5},
   deadline : {None, Some(2)},
   assigned_robot_id : {None} \cup {Some(i) : i \in {EmptyID, 1, MaxRows + 1}},
   status : {None}]

UpdateTaskInputs ==
  {data \in [id : IDs,
             required_capabilities : {None, Some(<<>>)},
             priority : {None, Some(0), Some(9)},
             deadline : {None, Some(2)},
             assigned_robot_id : {None} \cup {Some(i) : i \in {EmptyID, 1, MaxRows + 1}},
             status : {None, Some("")}] :
     \/ Cardinality(Supplied(data, TaskFields)) <= 1
     \/ Supplied(data, TaskFields) = {"priority", "assigned_robot_id"}}

CreateTelemetryInputs ==
  [robot_id : {EmptyID, 2, MaxRows + 1},
   metric_name : {"temp"},
   metric_value : {7},
   timestamp : {None, Some(2)},
   metadata : {None, Some("{\"k\":1}")}]

UpdateTelemetryInputs ==
  {data \in [id : IDs,
             metric_name : {None, Some("")},
             metric_value : {None, Some(0)},
             timestamp : {None, Some(0)},
             metadata : {None, Some("{}")}] :
     Cardinality(Supplied(data, TelemetryFields)) \in {0, 1, 4}}

CreateMaintenanceEventInputs ==
  [robot_id : {EmptyID, 1, MaxRows + 1},
   type : {"CORRECTIVE"},
   notes : {None, Some("n")},
   cost : {None, Some(5)},
   timestamp : {None}]

UpdateMaintenanceEventInputs ==
  {data \in [id : IDs,
             type : {None, Some("")},
             notes : {None, Some("")},
             cost : {None, Some(0)},
             timestamp : {None, Some(0)}] :
     Cardinality(Supplied(data, MaintenanceFields)) \in {0, 1, 4}}

CreatePredictionInputs ==
  [robot_id : {EmptyID, 1, MaxRows + 1},
   prediction_type : {"RUL"},
   value : {3},
   model_version : {"v2"},
   timestamp : {None, Some(2)}]

UpdatePredictionInputs ==
  {data \in [id : IDs,
             prediction_type : {None, Some("")},
             value : {None, Some(0)},
             model_version : {None, Some("")},
             timestamp : {None, Some(0)}] :
     Cardinality(Supplied(data, PredictionFields)) \in {0, 1, 4}}

-----------------------------------------------------------------------------
(* Stored data sets.  The database outlives the process, so a run starts *)
(* from whatever rows earlier calls left: every data set below satisfies *)
(* the constraints models.py declares (foreign keys, unique serial) and  *)
(* is what a sequence of create and update calls leaves.                 *)

RobotFull ==
  [serial |-> <<"a">>, model |-> <<"m">>, capabilities |-> <<"weld">>,
   location |-> <<"x">>, status |-> "ACTIVE", firmware_version |-> "f1",
   last_seen |-> Some(1), created_at |-> 0, updated_at |-> 0]
RobotDefault ==
  [serial |-> <<"B">>, model |-> <<"m">>, capabilities |-> <<>>,
   location |-> <<>>, status |-> "IDLE", firmware_version |-> "",
   last_seen |-> None, created_at |-> 0, updated_at |-> 0]
TaskFull(r) ==
  [required_capabilities |-> <<"weld">>, priority |-> 5, deadline |-> Some(1),
   assigned_robot |-> r, status |-> "RUNNING", created_at |-> 0]
TaskDefault(r) ==
  [required_capabilities |-> <<>>, priority |-> 0, deadline |-> None,
   assigned_robot |-> r, status |-> "PENDING", created_at |-> 0]
PointFull(r) ==
  [robot |-> r, metric_name |-> "temp", metric_value |-> 7, timestamp |-> 1,
   metadata |-> "{\"k\":1}"]
PointDefault(r) ==
  [robot |-> r, metric_name |-> "rpm", metric_value |-> 0, timestamp |-> 0,
   metadata |-> "{}"]
EventFull(r) ==
  [robot |-> r, type |-> "PREVENTIVE", notes |-> "n", cost |-> Some(5), timestamp |-> 1]
PredictionFull(r) ==
  [robot |-> r, prediction_type |-> "ANOMALY_SCORE", value |-> 3,
   model_version |-> "v1", timestamp |-> 1]

Seeds ==
  {EmptyDB} \cup
  {[robots |-> <<RobotFull, RobotDefault>>,
    tasks |-> <<TaskFull(a1), TaskDefault(Some(1))>>,
    telemetry |-> <<PointFull(1), PointDefault(r2)>>,
    maintenance |-> <<EventFull(r3)>>,
    predictions |-> <<PredictionFull(r3)>>,
    nextId |-> [robots |-> 3, tasks |-> 3, telemetry |-> 3,
                maintenance |-> 2, predictions |-> 2]] :
     a1 \in {None, Some(1), Some(2)}, r2 \in {1, 2}, r3 \in {1, 2}}

-----------------------------------------------------------------------------
(* Actions: one resolver call each *)

NoCall ==
  [op |-> "", data |-> None, result |-> [ok |-> TRUE, value |-> None, error |-> ""],
   pre |-> EmptyDB]

\* No resolver call is part-way through its statements
NoCalls == <<>>

\* A mutation: the resolver's effect on the database and what it returned
Mutate(op, data, out) ==
  /\ steps < MaxOps
  /\ db' = out.db
  /\ last' = [op |-> op, data |-> data, result |-> out.result, pre |-> db]
  /\ steps' = steps + 1
  /\ UNCHANGED <<now, calls>>

\* A query reads the database and returns; its response is pending until
\* the client has taken it
Read(op, args, value) ==
  /\ last.op = ""
  /\ last' = [op |-> op, data |-> args,
              result |-> [ok |-> TRUE, value |-> value, error |-> ""], pre |-> db]
  /\ UNCHANGED <<db, now, steps, calls>>

CreateRobot(data) ==
  /\ db.nextId.robots <= MaxRows
  /\ Mutate("createRobot", data, create_robot(db, data, now))
UpdateRobot(data) == Mutate("updateRobot", data, update_robot(db, data, now))
DeleteRobot(id) == Mutate("deleteRobot", id, delete_robot(db, id))

CreateTask(data) ==
  /\ db.nextId.tasks <= MaxRows
  /\ Mutate("createTask", data, create_task(db, data, now))
UpdateTask(data) == Mutate("updateTask", data, update_task(db, data))
DeleteTask(id) == Mutate("deleteTask", id, delete_task(db, id))

CreateTelemetry(data) ==
  /\ db.nextId.telemetry <= MaxRows
  /\ Mutate("createTelemetry", data, create_telemetry(db, data, now))
UpdateTelemetry(data) == Mutate("updateTelemetry", data, update_telemetry(db, data))
DeleteTelemetry(id) == Mutate("deleteTelemetry", id, delete_telemetry(db, id))

CreateMaintenanceEvent(data) ==
  /\ db.nextId.maintenance <= MaxRows
  /\ Mutate("createMaintenanceEvent", data, create_maintenance_event(db, data, now))
UpdateMaintenanceEvent(data) ==
  Mutate("updateMaintenanceEvent", data, update_maintenance_event(db, data))
DeleteMaintenanceEvent(id) ==
  Mutate("deleteMaintenanceEvent", id, delete_maintenance_event(db, id))

CreatePrediction(data) ==
  /\ db.nextId.predictions <= MaxRows
  /\ Mutate("createPrediction", data, create_prediction(db, data, now))
UpdatePrediction(data) == Mutate("updatePrediction", data, update_prediction(db, data))
DeletePrediction(id) == Mutate("deletePrediction", id, delete_prediction(db, id))

Init ==
  /\ db \in Seeds
  /\ now = 1
  /\ last = NoCall
  /\ steps = 0
  /\ calls = NoCalls

Next ==
  \/ \E data \in CreateRobotInputs : CreateRobot(data)
  \/ \E data \in UpdateRobotInputs : UpdateRobot(data)
  \/ \E id \in IDs : DeleteRobot(id)
  \/ \E data \in CreateTaskInputs : CreateTask(data)
  \/ \E data \in UpdateTaskInputs : UpdateTask(data)
  \/ \E id \in IDs : DeleteTask(id)
  \/ \E data \in CreateTelemetryInputs : CreateTelemetry(data)
  \/ \E data \in UpdateTelemetryInputs : UpdateTelemetry(data)
  \/ \E id \in IDs : DeleteTelemetry(id)
  \/ \E data \in CreateMaintenanceEventInputs : CreateMaintenanceEvent(data)
  \/ \E data \in UpdateMaintenanceEventInputs : UpdateMaintenanceEvent(data)
  \/ \E id \in IDs : DeleteMaintenanceEvent(id)
  \/ \E data \in CreatePredictionInputs : CreatePrediction(data)
  \/ \E data \in UpdatePredictionInputs : UpdatePrediction(data)
  \/ \E id \in IDs : DeletePrediction(id)

Spec == Init /\ [][Next]_vars

-----------------------------------------------------------------------------
(* Properties of the mutations.  `last` is the call just made, last.pre the *)
(* database it ran against and db the database it left.                    *)

\* the table an update or delete mutation addresses
Target(d, op) ==
  CASE op \in {"updateRobot", "deleteRobot"} -> d.robots
    [] op \in {"updateTask", "deleteTask"} -> d.tasks
    [] op \in {"updateTelemetry", "deleteTelemetry"} -> d.telemetry
    [] op \in {"updateMaintenanceEvent", "deleteMaintenanceEvent"} -> d.maintenance
    [] op \in {"updatePrediction", "deletePrediction"} -> d.predictions

UpdateOps ==
  {"updateRobot", "updateTask", "updateTelemetry", "updateMaintenanceEvent",
   "updatePrediction"}
DeleteOps ==
  {"deleteRobot", "deleteTask", "deleteTelemetry", "deleteMaintenanceEvent",
   "deletePrediction"}

\* a well-formed ID (a number) that names no row of the table
Missing(table, id) == id # EmptyID /\ id \notin DOMAIN table

\* C3: updateTask with an existing id and only priority supplied succeeds,
\* sets the task's priority to the supplied value and changes nothing else:
\* not the task's status, deadline, assigned robot or required capabilities,
\* no other task, no robot, no other table.
C3_UpdateTaskOnlyPriority ==
  (/\ last.op = "updateTask"
   /\ last.data.id \in DOMAIN last.pre.tasks
   /\ Supplied(last.data, TaskFields) = {"priority"})
  => /\ last.result.ok
     /\ db.tasks[last.data.id].priority = Val(last.data.priority)
     /\ \A f \in {"status", "deadline", "assigned_robot", "required_capabilities",
                  "created_at"} :
          db.tasks[last.data.id][f] = last.pre.tasks[last.data.id][f]
     /\ DOMAIN db.tasks = DOMAIN last.pre.tasks
     /\ \A k \in DOMAIN db.tasks \ {last.data.id} : db.tasks[k] = last.pre.tasks[k]
     /\ db.robots = last.pre.robots
     /\ db.telemetry = last.pre.telemetry
     /\ db.maintenance = last.pre.maintenance
     /\ db.predictions = last.pre.predictions

C3_Witness ==
  /\ last.op = "updateTask"
  /\ last.data.id \in DOMAIN last.pre.tasks
  /\ Supplied(last.data, TaskFields) = {"priority"}
  /\ last.data.priority = Some(9)
  /\ last.pre.tasks[last.data.id].priority = 5
  /\ last.pre.tasks[last.data.id].status = "RUNNING"
  /\ last.pre.tasks[last.data.id].deadline # None
  /\ last.pre.tasks[last.data.id].assigned_robot # None
  /\ db.tasks[last.data.id].priority = 9

\* C4: an update mutation on an existing row writes a field supplied with
\* its zero-value (empty string, empty list, 0) as that value; the empty
\* assignedRobotId clears the task's robot.  The updates of an existing row
\* that do not succeed write nothing: an updateRobot whose serial another
\* robot holds (IntegrityError) and an updateTask whose assignedRobotId
\* names no robot.
C4_ZeroValueWritten ==
  (last.op \in UpdateOps /\ last.data.id \in DOMAIN Target(last.pre, last.op))
  => LET data == last.data
         id == data.id
     IN IF last.result.ok
        THEN
          /\ last.op = "updateRobot" =>
               /\ data.serial = Some(<<>>) => db.robots[id].serial = <<>>
               /\ data.model = Some(<<>>) => db.robots[id].model = <<>>
               /\ data.capabilities = Some(<<>>) => db.robots[id].capabilities = <<>>
               /\ data.location = Some(<<>>) => db.robots[id].location = <<>>
               /\ data.status = Some("") => db.robots[id].status = ""
               /\ data.firmware_version = Some("") => db.robots[id].firmware_version = ""
          /\ last.op = "updateTask" =>
               /\ data.required_capabilities = Some(<<>>) =>
                    db.tasks[id].required_capabilities = <<>>
               /\ data.priority = Some(0) => db.tasks[id].priority = 0
               /\ data.status = Some("") => db.tasks[id].status = ""
               /\ data.assigned_robot_id = Some(EmptyID) =>
                    db.tasks[id].assigned_robot = None
          /\ last.op = "updateTelemetry" =>
               /\ data.metric_name = Some("") => db.telemetry[id].metric_name = ""
               /\ data.metric_value = Some(0) => db.telemetry[id].metric_value = 0
               /\ data.timestamp = Some(0) => db.telemetry[id].timestamp = 0
               /\ data.metadata = Some("{}") => db.telemetry[id].metadata = "{}"
          /\ last.op = "updateMaintenanceEvent" =>
               /\ data.type = Some("") => db.maintenance[id].type = ""
               /\ data.notes = Some("") => db.maintenance[id].notes = ""
               /\ data.cost = Some(0) => db.maintenance[id].cost = Some(0)
               /\ data.timestamp = Some(0) => db.maintenance[id].timestamp = 0
          /\ last.op = "updatePrediction" =>
               /\ data.prediction_type = Some("") => db.predictions[id].prediction_type = ""
               /\ data.value = Some(0) => db.predictions[id].value = 0
               /\ data.model_version = Some("") => db.predictions[id].model_version = ""
               /\ data.timestamp = Some(0) => db.predictions[id].timestamp = 0
        ELSE
          \/ /\ last.op = "updateRobot"
             /\ data.serial # None
             /\ \E r \in DOMAIN last.pre.robots \ {id} :
                  last.pre.robots[r].serial = Val(data.serial)
             /\ last.result.error = "IntegrityError"
             /\ db = last.pre
          \/ /\ last.op = "updateTask"
             /\ data.assigned_robot_id # None
             /\ Missing(last.pre.robots, Val(data.assigned_robot_id))
             /\ db = last.pre

C4_Witness ==
  /\ last.op = "updateRobot"
  /\ last.data.id \in DOMAIN last.pre.robots
  /\ last.pre.robots[last.data.id] = RobotFull
  /\ Supplied(last.data, RobotFields) = RobotFields
  /\ last.result.ok
  /\ db.robots[last.data.id].location = <<>>
  /\ db.robots[last.data.id].capabilities = <<>>
  /\ db.robots[last.data.id].model = <<>>
  /\ db.robots[last.data.id].status = ""

\* C5: an update mutation whose id names no row raises the not-found error
\* (DoesNotExist) and leaves the whole database as it was.
C5_UpdateMissingFails ==
  (last.op \in UpdateOps /\ Missing(Target(last.pre, last.op), last.data.id))
  => /\ ~last.result.ok
     /\ last.result.error = "DoesNotExist"
     /\ db = last.pre

C5_Witness ==
  /\ last.op = "updateTelemetry"
  /\ Missing(last.pre.telemetry, last.data.id)
  /\ last.pre.telemetry # EmptyTable
  /\ Supplied(last.data, TelemetryFields) = TelemetryFields
  /\ last.result.error = "DoesNotExist"
  /\ db = last.pre

\* C6: a delete mutation whose id names no row returns false, raises
\* nothing and leaves the whole database as it was.
C6_DeleteMissingReturnsFalse ==
  (last.op \in DeleteOps /\ Missing(Target(last.pre, last.op), last.data))
  => /\ last.result.ok
     /\ last.result.value = FALSE
     /\ db = last.pre

C6_Witness ==
  /\ last.op = "deleteTask"
  /\ Missing(last.pre.tasks, last.data)
  /\ last.pre.tasks # EmptyTable
  /\ last.result.ok
  /\ last.result.value = FALSE
  /\ db = last.pre

\* rows of a table that belong to robot id
Of(table, id) == {k \in DOMAIN table : table[k].robot = id}

\* C7: deleteRobot with an existing id returns true; afterwards the robot
\* is gone, so is every telemetry point, maintenance event and prediction
\* that referenced it; every task is still stored, a task that was assigned
\* to it has assigned_robot null and its other fields (status included) as
\* before; rows of other robots and the other robots are untouched.
C7_DeleteRobotCascades ==
  (last.op = "deleteRobot" /\ last.data \in DOMAIN last.pre.robots)
  => LET id == last.data
         pre == last.pre
     IN /\ last.result.ok
        /\ last.result.value = TRUE
        /\ DOMAIN db.robots = DOMAIN pre.robots \ {id}
        /\ \A r \in DOMAIN db.robots : db.robots[r] = pre.robots[r]
        /\ DOMAIN db.telemetry = DOMAIN pre.telemetry \ Of(pre.telemetry, id)
        /\ \A p \in DOMAIN db.telemetry : db.telemetry[p] = pre.telemetry[p]
        /\ DOMAIN db.maintenance = DOMAIN pre.maintenance \ Of(pre.maintenance, id)
        /\ \A e \in DOMAIN db.maintenance : db.maintenance[e] = pre.maintenance[e]
        /\ DOMAIN db.predictions = DOMAIN pre.predictions \ Of(pre.predictions, id)
        /\ \A p \in DOMAIN db.predictions : db.predictions[p] = pre.predictions[p]
        /\ DOMAIN db.tasks = DOMAIN pre.tasks
        /\ \A k \in DOMAIN pre.tasks :
             /\ db.tasks[k].assigned_robot =
                  IF pre.tasks[k].assigned_robot = Some(id) THEN None
                  ELSE pre.tasks[k].assigned_robot
             /\ \A f \in {"status", "priority", "deadline", "required_capabilities",
                          "created_at"} :
                  db.tasks[k][f] = pre.tasks[k][f]

C7_Witness ==
  /\ last.op = "deleteRobot"
  /\ last.data \in DOMAIN last.pre.robots
  /\ last.result.value = TRUE
  /\ \E k \in DOMAIN last.pre.tasks :
       /\ last.pre.tasks[k].assigned_robot = Some(last.data)
       /\ last.pre.tasks[k].status = "RUNNING"
       /\ db.tasks[k].assigned_robot = None
       /\ db.tasks[k].status = "RUNNING"
  /\ Of(last.pre.telemetry, last.data) # {}
  /\ Of(last.pre.maintenance, last.data) # {}
  /\ Of(last.pre.predictions, last.data) # {}
  /\ db.telemetry # EmptyTable
  /\ db.robots # EmptyTable
  /\ db.maintenance = EmptyTable

\* the robot id a referential mutation names, None when it names none
ReferencedRobot(op, data) ==
  CASE op \in {"createTask", "updateTask"} -> data.assigned_robot_id
    [] op \in {"createTelemetry", "createMaintenanceEvent", "createPrediction"} ->
         Some(data.robot_id)
    [] OTHER -> None

\* C8: createTask or updateTask with assignedRobotId, createTelemetry,
\* createMaintenanceEvent or createPrediction with robotId, naming a robot
\* that is not stored, fails and writes nothing: no row is created and no
\* field of a stored row changes.  The error is the not-found error
\* (DoesNotExist) of the robot, or for updateTask of the task when that is
\* missing too.
C8_UnresolvedRobotNoWrite ==
  (/\ ReferencedRobot(last.op, last.data) # None
   /\ Missing(last.pre.robots, Val(ReferencedRobot(last.op, last.data)))
   /\ last.op = "updateTask" => last.data.id # EmptyID)
  => /\ ~last.result.ok
     /\ last.result.error = "DoesNotExist"
     /\ db = last.pre

C8_Witness ==
  /\ last.op = "updateTask"
  /\ last.data.id \in DOMAIN last.pre.tasks
  /\ last.data.assigned_robot_id # None
  /\ Missing(last.pre.robots, Val(last.data.assigned_robot_id))
  /\ last.data.priority # None
  /\ Val(last.data.priority) # last.pre.tasks[last.data.id].priority
  /\ last.result.error = "DoesNotExist"
  /\ db.tasks[last.data.id].priority = last.pre.tasks[last.data.id].priority

\* C9: createRobot given only serial and model stores exactly one new robot,
\* with the given serial and model, capabilities = [], location = "" and
\* status = "IDLE", and changes no stored row.  (It stores nothing, raising
\* IntegrityError, exactly when a stored robot already has the serial.)
C9_CreateRobotDefaults ==
  (/\ last.op = "createRobot"
   /\ Supplied(last.data, {"capabilities", "location", "status", "firmware_version"}) = {})
  => LET pre == last.pre
         taken == \E r \in DOMAIN pre.robots : pre.robots[r].serial = last.data.serial
     IN IF taken
        THEN ~last.result.ok /\ last.result.error = "IntegrityError" /\ db = pre
        ELSE
          /\ last.result.ok
          /\ \E id \in DOMAIN db.robots \ DOMAIN pre.robots :
               /\ DOMAIN db.robots = DOMAIN pre.robots \cup {id}
               /\ last.result.value = id
               /\ db.robots[id].serial = last.data.serial
               /\ db.robots[id].model = last.data.model
               /\ db.robots[id].capabilities = <<>>
               /\ db.robots[id].location = <<>>
               /\ db.robots[id].status = "IDLE"
          /\ \A r \in DOMAIN pre.robots : db.robots[r] = pre.robots[r]
          /\ db.tasks = pre.tasks
          /\ db.telemetry = pre.telemetry
          /\ db.maintenance = pre.maintenance
          /\ db.predictions = pre.predictions

C9_Witness ==
  /\ last.op = "createRobot"
  /\ Supplied(last.data, {"capabilities", "location", "status", "firmware_version"}) = {}
  /\ last.result.ok
  /\ last.pre.robots # EmptyTable
  /\ db.robots[last.result.value].status = "IDLE"
  /\ db.robots[last.result.value].capabilities = <<>>
  /\ db.robots[last.result.value].location = <<>>
  /\ Cardinality(DOMAIN db.robots) = Cardinality(DOMAIN last.pre.robots) + 1

-----------------------------------------------------------------------------
(* Queries over stored data sets *)

\* tables of up to MaxSeedRows rows drawn from Rows, keyed 1, 2, ...
TablesOf(Rows) == UNION {[1..n -> Rows] : n \in 0..MaxSeedRows}

RobotRows ==
  {row \in [serial : {<<"a">>, <<"B", "a">>, <<"c">>},
            model : {<<"A">>, <<"b">>},
            capabilities : {<<>>},
            location : {<<>>, <<"a", "B">>},
            status : {"IDLE", "ACTIVE"},
            firmware_version : {""},
            last_seen : {None},
            created_at : {0},
            updated_at : {0}] :
     (row.serial = <<"a">>) = (row.location = <<>>)}

TaskRows ==
  {row \in [required_capabilities : {<<>>},
            priority : {-1, 0, 1},
            deadline : {None, Some(1)},
            assigned_robot : {None, Some(1)},
            status : {"PENDING", "RUNNING"},
            created_at : {0}] :
     \/ row.status = "PENDING" /\ row.assigned_robot = None /\ row.deadline = None
     \/ row.status = "PENDING" /\ row.assigned_robot # None /\ row.deadline # None
     \/ row.status = "RUNNING" /\ row.assigned_robot # None /\ row.deadline = None
     \/ row.status = "RUNNING" /\ row.assigned_robot = None /\ row.deadline # None}

PointRows ==
  {row \in [robot : {1, 2},
            metric_name : {"temp", "rpm"},
            metric_value : {-1, 0, 2},
            timestamp : {1, 2},
            metadata : {"{}"}] :
     /\ row.robot = 2 => row.metric_name = "temp"
     /\ row.metric_value < 2 => row.timestamp = 1 - row.metric_value}

SeedOf(robotTable, taskTable, pointTable) ==
  [robots |-> robotTable, tasks |-> taskTable, telemetry |-> pointTable,
   maintenance |-> EmptyTable, predictions |-> EmptyTable,
   nextId |-> [robots |-> Len(robotTable) + 1, tasks |-> Len(taskTable) + 1,
               telemetry |-> Len(pointTable) + 1, maintenance |-> 1,
               predictions |-> 1]]

QuerySeeds ==
  {SeedOf(t, <<>>, <<>>) :
     t \in {t \in TablesOf(RobotRows) :
              \A i, j \in DOMAIN t : i # j => t[i].serial # t[j].serial}}
  \cup {SeedOf(<<RobotFull, RobotDefault>>, t, <<>>) : t \in TablesOf(TaskRows)}
  \cup {SeedOf(<<RobotFull, RobotDefault>>, <<>>, t) : t \in TablesOf(PointRows)}

RobotsArgs ==
  [model : {None, Some(<<>>), Some(<<"a">>)},
   status : {None, Some(""), Some("IDLE")},
   location : {None, Some(<<"b">>)},
   serial : {None, Some(<<"A">>)}]

TasksArgs ==
  [status : {None, Some("PENDING")},
   priority_min : {None, Some(0), Some(1)},
   priority_max : {None, Some(0)},
   robot_id : {None, Some(1)},
   has_deadline : {None, Some(TRUE), Some(FALSE)}]

TelemetryArgs ==
  [robot_id : {None, Some(EmptyID), Some(1)},
   metric_name : {None, Some(""), Some("temp")},
   start_date : {None, Some(2)},
   end_date : {None, Some(1), Some(2)}]

QueryRobots(args) == Read("robots", args, robots(db, args))
QueryTasks(args) == Read("tasks", args, tasks(db, args))
QueryTelemetryStatistics(args) ==
  Read("telemetryStatistics", args, telemetry_statistics(db, args))

\* The client takes the response of a query
Respond ==
  /\ last.op # ""
  /\ last' = NoCall
  /\ UNCHANGED <<db, now, steps, calls>>

InitQ ==
  /\ db \in QuerySeeds
  /\ now = 1
  /\ last = NoCall
  /\ steps = 0
  /\ calls = NoCalls

NextQ ==
  \/ \E args \in RobotsArgs : QueryRobots(args)
  \/ \E args \in TasksArgs : QueryTasks(args)
  \/ \E args \in TelemetryArgs : QueryTelemetryStatistics(args)
  \/ Respond

SpecQ == InitQ /\ [][NextQ]_vars

-----------------------------------------------------------------------------
(* Properties of the queries *)

\* the arguments with every filter but f absent
Only(args, f) == [g \in DOMAIN args |-> IF g = f THEN args[g] ELSE None]

\* C1: the set robots or tasks returns equals the intersection of the sets
\* the same query returns for each present filter applied alone, for every
\* stored data set, every combination of present and absent filters and every
\* value of the present ones; with no filter present the intersection is
\* over nothing and every stored row is returned.
C1_FiltersIntersect ==
  /\ last.op = "robots" =>
       last.result.value =
         {r \in DOMAIN last.pre.robots :
            \A f \in Supplied(last.data, DOMAIN last.data) :
              r \in robots(last.pre, Only(last.data, f))}
  /\ last.op = "tasks" =>
       last.result.value =
         {k \in DOMAIN last.pre.tasks :
            \A f \in Supplied(last.data, DOMAIN last.data) :
              k \in tasks(last.pre, Only(last.data, f))}

C1_Witness ==
  /\ last.op = "robots"
  /\ last.result.value # DOMAIN last.pre.robots
  /\ \E f, g \in Supplied(last.data, DOMAIN last.data) :
       /\ robots(last.pre, Only(last.data, f)) # {}
       /\ robots(last.pre, Only(last.data, g)) # {}
       /\ robots(last.pre, Only(last.data, f)) # robots(last.pre, Only(last.data, g))

\* what the tasks query returns without its numeric and boolean filters
TasksUnbounded(d, args) ==
  tasks(d, [args EXCEPT !.priority_min = None, !.priority_max = None,
                        !.has_deadline = None])

\* C2: the tasks query applies priorityMin, priorityMax and hasDeadline
\* whenever they are supplied, zero and false included: of the tasks the
\* other filters leave, it returns exactly those with priority >= priorityMin
\* (when supplied), priority <= priorityMax (when supplied), and a null
\* deadline for hasDeadline = false, a non-null one for hasDeadline = true;
\* an absent argument leaves the tasks unconstrained.
C2_ZeroAndFalseApplied ==
  last.op = "tasks" =>
    last.result.value =
      {k \in TasksUnbounded(last.pre, last.data) :
         /\ last.data.priority_min # None =>
              last.pre.tasks[k].priority >= Val(last.data.priority_min)
         /\ last.data.priority_max # None =>
              last.pre.tasks[k].priority <= Val(last.data.priority_max)
         /\ last.data.has_deadline # None =>
              (last.pre.tasks[k].deadline = None) = ~Val(last.data.has_deadline)}

C2_Witness ==
  /\ last.op = "tasks"
  /\ Supplied(last.data, DOMAIN last.data) = {"priority_min"}
  /\ last.data.priority_min = Some(0)
  /\ \E k \in DOMAIN last.pre.tasks :
       last.pre.tasks[k].priority < 0 /\ k \notin last.result.value
  /\ \E k \in last.result.value : last.pre.tasks[k].priority = 0

\* the telemetry points that match the given filters; an empty robotId or
\* metricName is no filter
Matching(d, args) ==
  {p \in DOMAIN d.telemetry :
     /\ TruthyID(args.robot_id) => d.telemetry[p].robot = Val(args.robot_id)
     /\ TruthyStr(args.metric_name) =>
          d.telemetry[p].metric_name = Val(args.metric_name)
     /\ args.start_date # None => d.telemetry[p].timestamp >= Val(args.start_date)
     /\ args.end_date # None => d.telemetry[p].timestamp <= Val(args.end_date)}

\* C10: telemetryStatistics returns null exactly when no telemetry point
\* matches the given filters; otherwise it returns an object whose count is
\* the number of matching points and whose minValue, maxValue and
\* latestTimestamp are the least value, the greatest value and the greatest
\* timestamp among the matching points.
C10_StatisticsNullIffNoMatch ==
  last.op = "telemetryStatistics" =>
    LET M == Matching(last.pre, last.data)
        point == last.pre.telemetry
        v == last.result.value
    IN /\ (v = None) <=> (M = {})
       /\ M # {} =>
            /\ Val(v).count = Cardinality(M)
            /\ \E p \in M : point[p].metric_value = Val(v).min_value
            /\ \A p \in M : point[p].metric_value >= Val(v).min_value
            /\ \E p \in M : point[p].metric_value = Val(v).max_value
            /\ \A p \in M : point[p].metric_value <= Val(v).max_value
            /\ \E p \in M : point[p].timestamp = Val(v).latest_timestamp
            /\ \A p \in M : point[p].timestamp <= Val(v).latest_timestamp

C10_Witness ==
  /\ last.op = "telemetryStatistics"
  /\ TruthyID(last.data.robot_id)
  /\ last.result.value # None
  /\ Val(last.result.value).count = 2
  /\ Val(last.result.value).min_value < Val(last.result.value).max_value
  /\ Val(last.result.value).latest_timestamp = 2

-----------------------------------------------------------------------------
(* Properties of the statistics *)

\* C11: in every reachable state robotStatistics().robotsByStatus has
\* exactly the keys IDLE, ACTIVE, OFFLINE, ERROR and MAINTENANCE, each mapped
\* to the number of stored robots with that status, 0 when there is none.
C11_EveryStatusKey ==
  LET by_status == robot_statistics(db).robots_by_status
  IN /\ DOMAIN by_status = {"IDLE", "ACTIVE", "OFFLINE", "ERROR", "MAINTENANCE"}
     /\ \A st \in DOMAIN by_status :
          /\ by_status[st] = 0 <=> ~(\E r \in DOMAIN db.robots : db.robots[r].status = st)
          /\ \E R \in SUBSET DOMAIN db.robots :
               /\ Cardinality(R) = by_status[st]
               /\ \A r \in DOMAIN db.robots : r \in R <=> db.robots[r].status = st

C11_Witness ==
  /\ last.op = "createRobot"
  /\ last.result.ok
  /\ robot_statistics(db).robots_by_status["ACTIVE"] = 2
  /\ robot_statistics(db).robots_by_status["IDLE"] = 1
  /\ robot_statistics(db).robots_by_status["OFFLINE"] = 0

\* C17: averageTasksPerRobot is the number of tasks that have an assigned
\* robot divided by the number of distinct robots that have at least one
\* task, and 0 when no robot has a task; robotsWithMaintenance is the number
\* of distinct robots with at least one maintenance event.
C17_AverageOverBusyRobots ==
  LET stats == robot_statistics(db)
      avg == stats.average_tasks_per_robot
      assigned == {k \in DOMAIN db.tasks : db.tasks[k].assigned_robot # None}
      busy == {Val(db.tasks[k].assigned_robot) : k \in assigned}
      maintained == {db.maintenance[e].robot : e \in DOMAIN db.maintenance}
  IN /\ avg.den > 0
     /\ busy = {} => avg.num = 0
     /\ busy # {} => avg.num * Cardinality(busy) = Cardinality(assigned) * avg.den
     /\ stats.robots_with_maintenance = Cardinality(maintained)

C17_Witness ==
  /\ last.op = "createTask"
  /\ last.result.ok
  /\ robot_statistics(db).average_tasks_per_robot = [num |-> 3, den |-> 1]
  /\ Cardinality(DOMAIN db.robots) = 2
  /\ robot_statistics(db).robots_with_maintenance = 1

-----------------------------------------------------------------------------
(* Queries that read the clock or return an ordered list *)

OverdueRows ==
  {row \in [required_capabilities : {<<>>},
            priority : {0},
            deadline : {None, Some(0), Some(1)},
            assigned_robot : {None},
            status : TaskStatus,
            created_at : {0}] :
     row.deadline = None => row.status = "PENDING"}

TimedSeeds ==
  {SeedOf(<<RobotFull, RobotDefault>>, t, <<>>) : t \in TablesOf(OverdueRows)}
  \cup {SeedOf(<<RobotFull, RobotDefault>>, <<>>, t) : t \in TablesOf(PointRows)}

\* the times at which a query is made
Clock == {1, 2}

\* requests of telemetryPoints; limit None is a request that omits it
PointsArgs ==
  [robot_id : {None, Some(1)},
   metric_name : {None},
   start_date : {None, Some(2)},
   end_date : {None, Some(1)},
   limit : {None, Some(0), Some(1), Some(2)}]

\* the limit the resolver receives
LimitOf(args) == IF args.limit # None THEN Val(args.limit) ELSE DefaultLimit

QueryOverdueTasks(value) == Read("overdueTasks", None, value)
QueryTelemetryPoints(args, value) == Read("telemetryPoints", args, value)

InitT ==
  /\ db \in TimedSeeds
  /\ now \in Clock
  /\ last = NoCall
  /\ steps = 0
  /\ calls = NoCalls

NextT ==
  \/ \E value \in overdue_tasks(db, now) : QueryOverdueTasks(value)
  \/ \E args \in PointsArgs :
       \E value \in telemetry_points(db, [args EXCEPT !.limit = Some(LimitOf(args))]) :
         QueryTelemetryPoints(args, value)
  \/ Respond

SpecT == InitT /\ [][NextT]_vars

\* the elements of a list
Range(q) == {q[i] : i \in DOMAIN q}

\* C12: overdueTasks returns exactly the tasks whose deadline is non-null and
\* strictly before the current time and whose status is PENDING, ASSIGNED or
\* RUNNING, each once, in ascending order of deadline; a task that is
\* COMPLETED, FAILED or CANCELLED, or has no deadline, is never returned.
C12_OverdueTasks ==
  last.op = "overdueTasks" =>
    LET q == last.result.value
        task == last.pre.tasks
    IN /\ \A k \in DOMAIN task :
            k \in Range(q) <=>
              /\ task[k].deadline # None
              /\ task[k].deadline \in {Some(t) : t \in 0..(now - 1)}
              /\ task[k].status \in {"PENDING", "ASSIGNED", "RUNNING"}
       /\ Range(q) \subseteq DOMAIN task
       /\ \A i, j \in DOMAIN q : i # j => q[i] # q[j]
       /\ \A i, j \in DOMAIN q : i < j => Val(task[q[i]].deadline) <= Val(task[q[j]].deadline)
       /\ \A k \in Range(q) : task[k].status \notin {"COMPLETED", "FAILED", "CANCELLED"}

C12_Witness ==
  /\ last.op = "overdueTasks"
  /\ Len(last.result.value) = 1
  /\ \E k \in DOMAIN last.pre.tasks :
       /\ last.pre.tasks[k].status \in {"COMPLETED", "FAILED", "CANCELLED"}
       /\ last.pre.tasks[k].deadline = Some(0)
       /\ k \notin Range(last.result.value)

\* C16: telemetryPoints returns the points matching the filters, newest
\* first, cut to the first `limit` of that order: for every limit L >= 0 (100
\* when the request omits it) the result has at most L elements and they are
\* the L most recent matching points.
C16_LimitTruncates ==
  last.op = "telemetryPoints" =>
    LET q == last.result.value
        L == LimitOf(last.data)
        point == last.pre.telemetry
        M == Matching(last.pre, last.data)
    IN /\ Range(q) \subseteq M
       /\ \A i, j \in DOMAIN q : i # j => q[i] # q[j]
       /\ \A i, j \in DOMAIN q : i < j => point[q[i]].timestamp >= point[q[j]].timestamp
       /\ Len(q) <= L
       /\ Len(q) = L \/ Range(q) = M
       /\ \A p \in M \ Range(q) : \A i \in DOMAIN q : point[p].timestamp <= point[q[i]].timestamp

-----------------------------------------------------------------------------
(* Requests with values the schema does not constrain, explicit nulls, and *)
(* the batch mutations                                                     *)

\* Templates per createRobotsFromTemplates call
MaxBatch == 2

\* status is a plain str in the inputs: any string can be sent
CreateRobotRequests ==
  [serial : {<<"a">>, <<"d">>},
   model : {<<"m">>},
   capabilities : {None},
   location : {None},
   status : {None, Some("BOGUS")},
   firmware_version : {None}]

UpdateRobotRequests ==
  [id : {1, 2},
   serial : {None, Some(<<"B">>)},
   model : {None},
   capabilities : {None},
   location : {None},
   status : {None, Some("BOGUS")},
   firmware_version : {None},
   last_seen : {None}]

Templates ==
  {[serial |-> <<"d">>, model |-> <<"m">>, capabilities |-> None, location |-> None,
    status |-> None, firmware_version |-> None],
   [serial |-> <<"e">>, model |-> <<"m">>, capabilities |-> None,
    location |-> Some(<<"x">>), status |-> Some("BOGUS"), firmware_version |-> None],
   [serial |-> <<"a">>, model |-> <<"m">>, capabilities |-> None, location |-> None,
    status |-> None, firmware_version |-> None]}

TemplateLists == UNION {[1..n -> Templates] : n \in 0..MaxBatch}

\* location_prefix as sent; None is a request that omits it
Prefixes == {None, Some(<<"P">>)}

BulkIds == {{}, {1}, {1, 2}, {2, MaxRows + 1}, {EmptyID, 1}}

CreateTaskRequests ==
  [required_capabilities : {<<>>},
   priority : {0},
   deadline : {None},
   assigned_robot_id : {None},
   status : {None, Some("BOGUS")}]

\* nulls: the fields the request gives as null.  Strawberry hands the
\* resolver None for them, as it does for the fields the request omits.
UpdateTaskRequests ==
  {data \in [id : {1, 2, MaxRows + 1},
             required_capabilities : {None},
             priority : {None, Some(9)},
             deadline : {None, Some(2)},
             assigned_robot_id : {None},
             status : {None},
             nulls : {{}, {"deadline"}}] :
     "deadline" \in data.nulls => data.deadline = None}

UpdateMaintenanceEventRequests ==
  {data \in [id : {1, 2},
             type : {None},
             notes : {None},
             cost : {None, Some(0)},
             timestamp : {None},
             nulls : {{}, {"cost"}}] :
     "cost" \in data.nulls => data.cost = None}

\* metadata is any JSON value
CreateTelemetryRequests ==
  [robot_id : {1},
   metric_name : {"temp"},
   metric_value : {7},
   timestamp : {None},
   metadata : {None, Some("{}"), Some("[]"), Some("0"), Some("{\"k\":1}")}]

BulkUpdateRobotStatuses(ids, status) ==
  Mutate("bulkUpdateRobotStatuses", [robot_ids |-> ids, new_status |-> status],
         bulk_update_robot_statuses(db, ids, status, now))

CreateRobotsFromTemplates(templates, prefix) ==
  LET out == create_robots_from_templates(db, templates,
                                          IF prefix = None THEN Factory ELSE Val(prefix),
                                          now)
  IN /\ out.db.nextId.robots <= MaxRows + 1
     /\ Mutate("createRobotsFromTemplates",
               [templates |-> templates, location_prefix |-> prefix], out)

InitB ==
  /\ db \in Seeds
  /\ now = 1
  /\ last = NoCall
  /\ steps = 0
  /\ calls = NoCalls

NextB ==
  \/ \E data \in CreateRobotRequests : CreateRobot(data)
  \/ \E data \in UpdateRobotRequests : UpdateRobot(data)
  \/ \E templates \in TemplateLists, prefix \in Prefixes :
       CreateRobotsFromTemplates(templates, prefix)
  \/ \E ids \in BulkIds, status \in {"OFFLINE", "BOGUS"} :
       BulkUpdateRobotStatuses(ids, status)
  \/ \E data \in CreateTaskRequests : CreateTask(data)
  \/ \E data \in UpdateTaskRequests : UpdateTask(data)
  \/ \E data \in UpdateMaintenanceEventRequests : UpdateMaintenanceEvent(data)
  \/ \E data \in CreateTelemetryRequests : CreateTelemetry(data)

SpecB == InitB /\ [][NextB]_vars

\* C13: for every JSON value supplied explicitly as metadata to
\* createTelemetry, the telemetryPoint query of the created point returns
\* metadata identical to the supplied value.
C13_MetadataRoundTrip ==
  (/\ last.op = "createTelemetry"
   /\ last.result.ok
   /\ last.data.metadata # None)
  => LET got == telemetry_point(db, last.result.value)
     IN /\ got.ok
        /\ got.value # None
        /\ Val(got.value).metadata = Val(last.data.metadata)

\* C14: a create or update mutation given a status that is not a member of
\* the entity's enumeration is rejected before any write, so every stored
\* robot status is one of IDLE, ACTIVE, OFFLINE, ERROR, MAINTENANCE and every
\* stored task status one of PENDING, ASSIGNED, RUNNING, COMPLETED, FAILED,
\* CANCELLED.
C14_StoredStatusInEnum ==
  /\ \A r \in DOMAIN db.robots :
       db.robots[r].status \in {"IDLE", "ACTIVE", "OFFLINE", "ERROR", "MAINTENANCE"}
  /\ \A k \in DOMAIN db.tasks :
       db.tasks[k].status \in
         {"PENDING", "ASSIGNED", "RUNNING", "COMPLETED", "FAILED", "CANCELLED"}

\* the serials the stored robots other than `self` hold
SerialsOf(d, self) == {d.robots[r].serial : r \in DOMAIN d.robots \ self}

\* C15: no two stored robots ever have the same serial.  A createRobot or
\* updateRobot that would give a robot the serial of another stored robot
\* fails and leaves the database as it was; a createRobotsFromTemplates with
\* a template whose serial is held by a stored robot or by an earlier
\* template fails and leaves every robot stored before the call as it was.
C15_SerialUnique ==
  /\ \A r1, r2 \in DOMAIN db.robots :
       r1 # r2 => db.robots[r1].serial # db.robots[r2].serial
  /\ (/\ last.op = "createRobot"
      /\ last.data.serial \in SerialsOf(last.pre, {}))
     => ~last.result.ok /\ db = last.pre
  /\ (/\ last.op = "updateRobot"
      /\ last.data.id \in DOMAIN last.pre.robots
      /\ last.data.serial # None
      /\ last.data.serial \in {Some(x) : x \in SerialsOf(last.pre, {last.data.id})})
     => ~last.result.ok /\ db = last.pre
  /\ (/\ last.op = "createRobotsFromTemplates"
      /\ \E i \in DOMAIN last.data.templates :
           \/ last.data.templates[i].serial \in SerialsOf(last.pre, {})
           \/ \E j \in 1..(i - 1) :
                last.data.templates[j].serial = last.data.templates[i].serial)
     => /\ ~last.result.ok
        /\ \A r \in DOMAIN last.pre.robots :
             r \in DOMAIN db.robots /\ db.robots[r] = last.pre.robots[r]

C15_Witness ==
  /\ last.op = "updateRobot"
  /\ last.data.serial = Some(<<"B">>)
  /\ last.data.id \in DOMAIN last.pre.robots
  /\ last.pre.robots[last.data.id].serial # <<"B">>
  /\ <<"B">> \in SerialsOf(last.pre, {last.data.id})
  /\ last.result.error = "IntegrityError"

\* C19: an update mutation tells a field provided as null from a field not
\* provided: updateTask with deadline null clears the stored deadline and
\* updateMaintenanceEvent with cost null clears the stored cost, while an
\* omitted field keeps its stored value.
C19_NullClears ==
  /\ (/\ last.op = "updateTask"
      /\ last.data.id \in DOMAIN last.pre.tasks)
     => /\ "deadline" \in last.data.nulls => db.tasks[last.data.id].deadline = None
        /\ (last.data.deadline = None /\ "deadline" \notin last.data.nulls)
           => db.tasks[last.data.id].deadline = last.pre.tasks[last.data.id].deadline
  /\ (/\ last.op = "updateMaintenanceEvent"
      /\ last.data.id \in DOMAIN last.pre.maintenance)
     => /\ "cost" \in last.data.nulls => db.maintenance[last.data.id].cost = None
        /\ (last.data.cost = None /\ "cost" \notin last.data.nulls)
           => db.maintenance[last.data.id].cost = last.pre.maintenance[last.data.id].cost

\* C25: bulkUpdateRobotStatuses gives newStatus to exactly the stored robots
\* whose id is in robotIds; of their other fields only updated_at changes,
\* to the time of the save; no other robot and no other entity changes; ids
\* of no robot are ignored without an error; the robots updated are returned.
C25_BulkUpdateFrame ==
  (last.op = "bulkUpdateRobotStatuses" /\ EmptyID \notin last.data.robot_ids) =>
    LET hit == last.data.robot_ids \cap DOMAIN last.pre.robots
    IN /\ last.result.ok
       /\ last.result.value = hit
       /\ DOMAIN db.robots = DOMAIN last.pre.robots
       /\ \A r \in hit :
            db.robots[r] = [last.pre.robots[r] EXCEPT !.status = last.data.new_status,
                                                      !.updated_at = now]
       /\ \A r \in DOMAIN db.robots \ hit : db.robots[r] = last.pre.robots[r]
       /\ [db EXCEPT !.robots = last.pre.robots] = last.pre

\* a call naming a stored robot and an id of no robot, another robot left out
C25_Witness ==
  /\ last.op = "bulkUpdateRobotStatuses"
  /\ last.result.ok
  /\ last.result.value = {2}
  /\ MaxRows + 1 \in last.data.robot_ids
  /\ 1 \in DOMAIN db.robots
  /\ db.robots[2].status = "OFFLINE"
  /\ last.pre.robots[2].status # "OFFLINE"

\* C25 as stated: an updated robot differs from what it was in status alone
C25_OnlyStatusChanges ==
  (last.op = "bulkUpdateRobotStatuses" /\ last.result.ok) =>
    \A r \in last.result.value :
      db.robots[r] = [last.pre.robots[r] EXCEPT !.status = last.data.new_status]

\* C26: when the create for the k-th template of createRobotsFromTemplates
\* fails, the robots made from templates 1..k-1 stay stored, no robot is made
\* from template k or a later one, and the call returns the error.
C26_EarlierRobotsRemain ==
  (last.op = "createRobotsFromTemplates" /\ ~last.result.ok) =>
    LET templates == last.data.templates
        first == last.pre.nextId.robots
        Duplicate(i) ==
          \/ \E r \in DOMAIN last.pre.robots : last.pre.robots[r].serial = templates[i].serial
          \/ \E j \in 1..(i - 1) : templates[j].serial = templates[i].serial
    IN \E k \in DOMAIN templates :
         /\ Duplicate(k)
         /\ \A j \in 1..(k - 1) : ~Duplicate(j)
         /\ last.result.error = "IntegrityError"
         /\ DOMAIN db.robots = DOMAIN last.pre.robots \cup (first..(first + k - 2))
         /\ \A r \in DOMAIN last.pre.robots : db.robots[r] = last.pre.robots[r]
         /\ \A j \in 1..(k - 1) :
              /\ db.robots[first + j - 1].serial = templates[j].serial
              /\ db.robots[first + j - 1].model = templates[j].model
         /\ [db EXCEPT !.robots = last.pre.robots, !.nextId.robots = first] = last.pre

\* the second template repeats a serial: the robot of the first one stays
C26_Witness ==
  /\ last.op = "createRobotsFromTemplates"
  /\ ~last.result.ok
  /\ Len(last.data.templates) = 2
  /\ Cardinality(DOMAIN db.robots) = Cardinality(DOMAIN last.pre.robots) + 1
  /\ \E r \in DOMAIN db.robots \ DOMAIN last.pre.robots :
       db.robots[r].serial = last.data.templates[1].serial


-----------------------------------------------------------------------------
(* Assignment of tasks to robots *)

RobotSpare(status) ==
  [serial |-> <<"c">>, model |-> <<"m">>, capabilities |-> <<"paint", "weld">>,
   location |-> <<>>, status |-> status, firmware_version |-> "",
   last_seen |-> None, created_at |-> 0, updated_at |-> 0]

AssignRows ==
  {row \in [required_capabilities : {<<>>, <<"weld">>, <<"weld", "paint">>},
            priority : {0, 5},
            deadline : {None},
            assigned_robot : {None, Some(1)},
            status : {"PENDING", "RUNNING"},
            created_at : {0}] :
     (row.status = "RUNNING") = (row.assigned_robot # None)}

AssignSeeds ==
  {SeedOf(<<RobotFull, RobotDefault, RobotSpare(status)>>, t, <<>>) :
     status \in {"OFFLINE", "ACTIVE"}, t \in TablesOf(AssignRows)}

\* taskIds as sent: stored tasks, a task that does not exist, a malformed id
AssignIds ==
  (SUBSET (1..MaxSeedRows)) \cup {{1, MaxSeedRows + 1}, {EmptyID, 1}}

AssignTasksToRobotsByCapability(ids, out) ==
  Mutate("assignTasksToRobotsByCapability", ids, out)

InitA ==
  /\ db \in AssignSeeds
  /\ now = 1
  /\ last = NoCall
  /\ steps = 0
  /\ calls = NoCalls

NextA ==
  \E ids \in AssignIds :
    \E out \in assign_tasks_to_robots_by_capability(db, ids) :
      AssignTasksToRobotsByCapability(ids, out)

SpecA == InitA /\ [][NextA]_vars

\* the tasks the call just made has assigned
Assigned ==
  {k \in DOMAIN db.tasks : db.tasks[k] # last.pre.tasks[k]}

\* the robots that were available when the call started
Available ==
  {r \in DOMAIN last.pre.robots : last.pre.robots[r].status \in {"IDLE", "ACTIVE"}}

\* C20: every task assignTasksToRobotsByCapability assigns ends with status
\* ASSIGNED and a robot that had status IDLE or ACTIVE when the call started
\* and whose capabilities contain every required capability of the task; a
\* selected task with no required capability matches every available robot,
\* so it is assigned whenever a robot is available.
C20_AssignedToCapableRobot ==
  (last.op = "assignTasksToRobotsByCapability" /\ last.result.ok) =>
    /\ \A k \in Assigned :
         /\ db.tasks[k].status = "ASSIGNED"
         /\ db.tasks[k].assigned_robot # None
         /\ Val(db.tasks[k].assigned_robot) \in Available
         /\ \A c \in Range(db.tasks[k].required_capabilities) :
              c \in Range(last.pre.robots[Val(db.tasks[k].assigned_robot)].capabilities)
    /\ \A k \in last.data \cap DOMAIN last.pre.tasks :
         (/\ last.pre.tasks[k].status = "PENDING"
          /\ last.pre.tasks[k].required_capabilities = <<>>
          /\ Available # {})
         => k \in Assigned

C20_Witness ==
  /\ last.op = "assignTasksToRobotsByCapability"
  /\ last.result.ok
  /\ \E k1, k2 \in Assigned :
       /\ db.tasks[k1].required_capabilities = <<"weld", "paint">>
       /\ db.tasks[k1].assigned_robot = Some(3)
       /\ db.tasks[k2].required_capabilities = <<>>
       /\ db.tasks[k2].assigned_robot = Some(2)

C22_AssignFrame ==
  (last.op = "assignTasksToRobotsByCapability" /\ last.result.ok) =>
    LET selected == {k \in last.data \cap DOMAIN last.pre.tasks :
                       last.pre.tasks[k].status = "PENDING"}
        matched == {k \in selected :
                      \E r \in Available :
                        Range(last.pre.tasks[k].required_capabilities)
                          \subseteq Range(last.pre.robots[r].capabilities)}
    IN /\ DOMAIN db.tasks = DOMAIN last.pre.tasks
       /\ \A k \in DOMAIN db.tasks \ matched : db.tasks[k] = last.pre.tasks[k]
       /\ Range(last.result.value) = selected
       /\ Len(last.result.value) = Cardinality(selected)
       /\ db.robots = last.pre.robots
       /\ [db EXCEPT !.tasks = last.pre.tasks] = last.pre

\* a call listing a RUNNING task, a PENDING task no robot matches and a
\* missing id, with another PENDING task left out
C22_Witness ==
  /\ last.op = "assignTasksToRobotsByCapability"
  /\ last.result.ok
  /\ \E k \in last.data \cap DOMAIN db.tasks :
       /\ last.pre.tasks[k].status = "PENDING"
       /\ last.pre.tasks[k].required_capabilities = <<"weld", "paint">>
       /\ k \notin Assigned
  /\ \E k \in last.data : k \notin DOMAIN db.tasks
  /\ \E k \in DOMAIN db.tasks \ last.data : db.tasks[k].status = "PENDING"

-----------------------------------------------------------------------------
(* Two updateTask calls running at the same time.  Each call is three
   steps: Task.objects.get, the assignments with the lookup of the robot,
   and task.save(), which writes every column of the row from the object
   in memory. *)

Procs == {1, 2}

ConcurrentSeeds ==
  {SeedOf(<<RobotFull, RobotDefault>>, <<t>>, <<>>) :
     t \in {TaskFull(Some(1)), TaskDefault(None)}}

ConcurrentRequests ==
  [id : {1, 2},
   required_capabilities : {None, Some(<<"paint">>)},
   priority : {None, Some(9)},
   deadline : {None, Some(2)},
   assigned_robot_id : {None, Some(2), Some(3)},
   status : {None, Some("DONE")}]

\* lines 1472: the row is read into the task object
GetTask(p) ==
  /\ calls[p].pc = "get"
  /\ LET e == GetError(db.tasks, calls[p].data.id)
     IN calls' = IF e # ""
                 THEN [calls EXCEPT ![p].pc = "done", ![p].error = e]
                 ELSE [calls EXCEPT ![p].pc = "assign",
                                    ![p].task = Some(db.tasks[calls[p].data.id])]
  /\ UNCHANGED <<db, now, last, steps>>

\* lines 1474-1486: the supplied fields are assigned to the task object
AssignFields(p) ==
  /\ calls[p].pc = "assign"
  /\ LET old == Val(calls[p].task)
         res == ResolveAssigned(db, calls[p].data.assigned_robot_id, old.assigned_robot)
     IN calls' = IF res.error # ""
                 THEN [calls EXCEPT ![p].pc = "done", ![p].error = res.error]
                 ELSE [calls EXCEPT ![p].pc = "save",
                                    ![p].task = Some(UpdatedTask(old, calls[p].data, res.robot))]
  /\ UNCHANGED <<db, now, last, steps>>

\* line 1488: task.save() writes the whole row
SaveTask(p) ==
  /\ calls[p].pc = "save"
  /\ db' = [db EXCEPT !.tasks[calls[p].data.id] = Val(calls[p].task)]
  /\ calls' = [calls EXCEPT ![p].pc = "done"]
  /\ UNCHANGED <<now, last, steps>>

InitC ==
  /\ db \in ConcurrentSeeds
  /\ now = 1
  /\ last = NoCall
  /\ steps = 0
  /\ calls \in [Procs -> [pc : {"get"}, data : ConcurrentRequests,
                          task : {None}, error : {""}]]

NextC ==
  \/ \E p \in Procs : GetTask(p)
  \/ \E p \in Procs : AssignFields(p)
  \/ \E p \in Procs : SaveTask(p)

SpecC == InitC /\ [][NextC]_vars

\* the stored row has the value of every field the request supplies
Carries(row, data) ==
  /\ data.required_capabilities # None =>
       row.required_capabilities = Val(data.required_capabilities)
  /\ data.priority # None => row.priority = Val(data.priority)
  /\ data.deadline # None => row.deadline = data.deadline
  /\ data.assigned_robot_id # None => row.assigned_robot = data.assigned_robot_id
  /\ data.status # None => row.status = Val(data.status)

\* C18: when two updateTask calls on the same task supply disjoint fields
\* and both have returned, in whatever order their get and save steps ran,
\* the stored task carries the new values of both calls.
C18_BothUpdatesKept ==
  (/\ \A p \in Procs : calls[p].pc = "done" /\ calls[p].error = ""
   /\ calls[1].data.id = calls[2].data.id
   /\ Supplied(calls[1].data, TaskFields) \cap Supplied(calls[2].data, TaskFields) = {})
  => \A p \in Procs : Carries(db.tasks[calls[p].data.id], calls[p].data)

-----------------------------------------------------------------------------
(* Requests that look back over a window of time, and telemetry values *)

WindowTaskRows ==
  [required_capabilities : {<<>>},
   priority : {0, 5},
   deadline : {None},
   assigned_robot : {None, Some(1), Some(2)},
   status : {"PENDING"},
   created_at : {0, HoursPerDay}]

WindowPointRows ==
  {row \in [robot : {1, 2},
            metric_name : {"temp", "rpm"},
            metric_value : {-2, 0, 3},
            timestamp : {0, HoursPerDay},
            metadata : {"{}"}] :
     /\ row.robot = 2 => row.metric_value = 3
     /\ row.metric_name = "rpm" => row.robot = 1 /\ row.metric_value = 0}

WindowSeeds ==
  {SeedOf(<<RobotFull, RobotDefault>>, t, <<>>) : t \in TablesOf(WindowTaskRows)}
  \cup {SeedOf(<<RobotFull, RobotDefault>>, <<>>, t) : t \in TablesOf(WindowPointRows)}

QueryRobotsWithRecentActivity(hours, value) ==
  Read("robotsWithRecentActivity", hours, value)
QueryTelemetryAnomalies(args, value) == Read("telemetryAnomalies", args, value)
CleanupOldTelemetry(args) ==
  Mutate("cleanupOldTelemetry", args,
         cleanup_old_telemetry(db, args.days_to_keep, args.metric_names, now))

InitW ==
  /\ db \in WindowSeeds
  /\ now = 2 * HoursPerDay
  /\ last = NoCall
  /\ steps = 0
  /\ calls = NoCalls

NextW ==
  \/ \E hours \in {HoursPerDay - 1, HoursPerDay, 2 * HoursPerDay} :
       \E value \in robots_with_recent_activity(db, hours, now) :
         QueryRobotsWithRecentActivity(hours, value)
  \/ \E args \in [robot_id : {None, Some(EmptyID), Some(1)},
                  metric_name : {"temp", "rpm"},
                  threshold_multiplier : {2}] :
       \E value \in telemetry_anomalies(db, args.robot_id, args.metric_name,
                                        args.threshold_multiplier) :
         QueryTelemetryAnomalies(args, value)
  \/ \E args \in [days_to_keep : {0, 1},
                  metric_names : {None, Some(<<>>), Some(<<"temp">>)}] :
       CleanupOldTelemetry(args)
  \/ Respond

SpecW == InitW /\ [][NextW]_vars

\* C23: robotsWithRecentActivity(hours) returns exactly the robots with a
\* telemetry point of timestamp >= now - hours, or an assigned task of
\* created_at >= now - hours, or a last_seen >= now - hours.
C23_RecentActivity ==
  last.op = "robotsWithRecentActivity" =>
    Range(last.result.value) =
      {r \in DOMAIN db.robots :
         \/ \E p \in DOMAIN db.telemetry :
              db.telemetry[p].robot = r /\ db.telemetry[p].timestamp >= now - last.data
         \/ \E k \in DOMAIN db.tasks :
              db.tasks[k].assigned_robot = Some(r) /\ db.tasks[k].created_at >= now - last.data
         \/ db.robots[r].last_seen # None /\ Val(db.robots[r].last_seen) >= now - last.data}

\* C24: cleanupOldTelemetry deletes exactly the points whose timestamp is
\* before now - daysToKeep days and, when a metricNames list is supplied,
\* whose metric_name is in the list; it returns their number and changes
\* nothing else.
C24_CleanupDeletesExactly ==
  (last.op = "cleanupOldTelemetry" /\ last.result.ok) =>
    LET old == {p \in DOMAIN last.pre.telemetry :
                  /\ last.pre.telemetry[p].timestamp
                       < now - last.data.days_to_keep * HoursPerDay
                  /\ last.data.metric_names # None =>
                       last.pre.telemetry[p].metric_name
                         \in Range(Val(last.data.metric_names))}
    IN /\ db.telemetry = Remove(last.pre.telemetry, old)
       /\ last.result.value = Cardinality(old)
       /\ [db EXCEPT !.telemetry = last.pre.telemetry] = last.pre

\* C30: telemetryAnomalies never returns a point whose value equals the
\* mean of the selected points; when all selected points have the same
\* value, or none is selected, the result is empty.
C30_NoAnomalyAtTheMean ==
  last.op = "telemetryAnomalies" =>
    LET selected == {p \in DOMAIN db.telemetry :
                       /\ db.telemetry[p].metric_name = last.data.metric_name
                       /\ TruthyID(last.data.robot_id) =>
                            db.telemetry[p].robot = Val(last.data.robot_id)}
        total == AggSum([p \in selected |-> db.telemetry[p].metric_value], selected)
    IN /\ \A p \in Range(last.result.value) :
            db.telemetry[p].metric_value * Cardinality(selected) # total
       /\ (\A p1, p2 \in selected :
             db.telemetry[p1].metric_value = db.telemetry[p2].metric_value)
          => last.result.value = <<>>

-----------------------------------------------------------------------------
(* Every kind of mutation, from the seed databases *)

\* an update of row 1 that supplies at most one field
Brief(data, fields) == data.id = 1 /\ Cardinality(Supplied(data, fields)) <= 1

NextM ==
  \/ \E data \in CreateRobotInputs :
       data.location = None /\ data.firmware_version = None /\ CreateRobot(data)
  \/ \E data \in UpdateRobotInputs : Brief(data, RobotFields) /\ UpdateRobot(data)
  \/ \E id \in IDs : DeleteRobot(id)
  \/ \E data \in CreateTaskInputs : CreateTask(data)
  \/ \E data \in UpdateTaskInputs : Brief(data, TaskFields) /\ UpdateTask(data)
  \/ \E id \in IDs : DeleteTask(id)
  \/ \E data \in CreateTelemetryInputs : CreateTelemetry(data)
  \/ \E data \in UpdateTelemetryInputs : Brief(data, TelemetryFields) /\ UpdateTelemetry(data)
  \/ \E id \in IDs : DeleteTelemetry(id)
  \/ \E data \in CreateMaintenanceEventInputs : CreateMaintenanceEvent(data)
  \/ \E data \in UpdateMaintenanceEventInputs :
       Brief(data, MaintenanceFields) /\ UpdateMaintenanceEvent(data)
  \/ \E id \in IDs : DeleteMaintenanceEvent(id)
  \/ \E data \in CreatePredictionInputs : CreatePrediction(data)
  \/ \E data \in UpdatePredictionInputs :
       Brief(data, PredictionFields) /\ UpdatePrediction(data)
  \/ \E id \in IDs : DeletePrediction(id)
  \/ \E ids \in {{2}, {1, MaxRows + 1}} : BulkUpdateRobotStatuses(ids, "OFFLINE")
  \/ \E tpl \in Templates : CreateRobotsFromTemplates(<<tpl>>, None)
  \/ \E ids \in {{2}, {1, 2}} :
       \E out \in assign_tasks_to_robots_by_capability(db, ids) :
         AssignTasksToRobotsByCapability(ids, out)
  \/ CleanupOldTelemetry([days_to_keep |-> 0, metric_names |-> Some(<<"temp">>)])

SpecM == Init /\ [][NextM]_vars

\* C27: in every state the mutations can reach, every telemetry point,
\* maintenance event and prediction references a stored robot, and the
\* assigned robot of every task is null or a stored robot.
C27_ReferentialIntegrity ==
  /\ \A p \in DOMAIN db.telemetry : db.telemetry[p].robot \in DOMAIN db.robots
  /\ \A e \in DOMAIN db.maintenance : db.maintenance[e].robot \in DOMAIN db.robots
  /\ \A p \in DOMAIN db.predictions : db.predictions[p].robot \in DOMAIN db.robots
  /\ \A k \in DOMAIN db.tasks :
       \/ db.tasks[k].assigned_robot = None
       \/ Val(db.tasks[k].assigned_robot) \in DOMAIN db.robots

\* a robot has been deleted that a task, a telemetry point, a maintenance
\* event or a prediction referenced
C27_Witness ==
  /\ last.op = "deleteRobot"
  /\ last.result.ok
  /\ last.data \in DOMAIN last.pre.robots
  /\ \E k \in DOMAIN last.pre.tasks : last.pre.tasks[k].assigned_robot = Some(last.data)
  /\ \E p \in DOMAIN last.pre.telemetry : last.pre.telemetry[p].robot = last.data
  /\ \E e \in DOMAIN last.pre.maintenance : last.pre.maintenance[e].robot = last.data

\* C29: in every state the mutations can reach, the counts of
\* robotStatistics().robotsByStatus add up to robotStatistics().totalRobots.
C29_CountsSumToTotal ==
  AggSum(robot_statistics(db).robots_by_status, RobotStatus)
    = robot_statistics(db).total_robots

-----------------------------------------------------------------------------
(* Two assignTasksToRobotsByCapability calls running at the same time.  A
   call is the query for its tasks, the query for the available robots, and
   for every task in turn the count queries that choose a robot and then
   task.save(), which writes the row from the object loaded at the start.
   No robot changes meanwhile, so capabilities are read from db. *)

\* line 1745: list(Task.objects.filter(pk__in=task_ids, status="PENDING"))
LoadTasks(p) ==
  /\ calls[p].pc = "tasks"
  /\ \E q \in TaskOrders(db, {k \in calls[p].data \cap DOMAIN db.tasks :
                                 db.tasks[k].status = "PENDING"}) :
       calls' = [calls EXCEPT ![p].pc = "robots",
                              ![p].tasks = q,
                              ![p].rows = [k \in Range(q) |-> db.tasks[k]]]
  /\ UNCHANGED <<db, now, last, steps>>

\* lines 1746-1748: list(Robot.objects.filter(status__in=["IDLE", "ACTIVE"]))
LoadRobots(p) ==
  /\ calls[p].pc = "robots"
  /\ calls' = [calls EXCEPT
       ![p].pc = IF calls[p].tasks = <<>> THEN "done" ELSE "choose",
       ![p].robots = BySerial(db, {r \in DOMAIN db.robots :
                                     db.robots[r].status \in {"IDLE", "ACTIVE"}})]
  /\ UNCHANGED <<db, now, last, steps>>

\* lines 1754-1772: matching_robots and, when there is one, best_robot by
\* the counts the database gives now; a task no robot matches is passed over
ChooseRobot(p) ==
  /\ calls[p].pc = "choose"
  /\ LET c == calls[p]
         task == c.rows[c.tasks[c.i]]
         matching_robots ==
           {n \in DOMAIN c.robots :
              HasAll(db.robots[c.robots[n]].capabilities, task.required_capabilities)}
         best == CHOOSE n \in matching_robots :
                   \A m \in matching_robots :
                     \/ Load(db, c.robots[n]) < Load(db, c.robots[m])
                     \/ Load(db, c.robots[n]) = Load(db, c.robots[m]) /\ n <= m
     IN calls' = IF matching_robots # {}
                 THEN [calls EXCEPT ![p].pc = "save", ![p].best = c.robots[best]]
                 ELSE [calls EXCEPT ![p].i = c.i + 1,
                                    ![p].pc = IF c.i = Len(c.tasks) THEN "done"
                                              ELSE "choose"]
  /\ UNCHANGED <<db, now, last, steps>>

\* lines 1773-1775: the task is saved with the robot and status ASSIGNED
SaveAssigned(p) ==
  /\ calls[p].pc = "save"
  /\ LET c == calls[p]
         k == c.tasks[c.i]
     IN /\ db' = [db EXCEPT !.tasks[k] =
                    [c.rows[k] EXCEPT !.assigned_robot = Some(c.best),
                                      !.status = "ASSIGNED"]]
        /\ calls' = [calls EXCEPT ![p].saved = @ \cup {k},
                                  ![p].i = c.i + 1,
                                  ![p].pc = IF c.i = Len(c.tasks) THEN "done"
                                            ELSE "choose"]
  /\ UNCHANGED <<now, last, steps>>

InitD ==
  /\ db \in {SeedOf(<<RobotFull, RobotDefault, RobotSpare(status)>>, <<t1, t2>>, <<>>) :
               status \in {"OFFLINE", "ACTIVE"},
               t1 \in {t \in AssignRows : t.status = "PENDING"},
               t2 \in {t \in AssignRows : t.status = "PENDING"}}
  /\ now = 1
  /\ last = NoCall
  /\ steps = 0
  /\ calls \in [Procs -> [pc : {"tasks"}, data : {{1}, {1, 2}}, tasks : {<<>>},
                          rows : {<<>>}, robots : {<<>>}, i : {1}, best : {0},
                          saved : {{}}]]

NextD ==
  \/ \E p \in Procs : LoadTasks(p)
  \/ \E p \in Procs : LoadRobots(p)
  \/ \E p \in Procs : ChooseRobot(p)
  \/ \E p \in Procs : SaveAssigned(p)

SpecD == InitD /\ [][NextD]_vars

\* C28: a PENDING task that two concurrent assignTasksToRobotsByCapability
\* calls both include is assigned by at most one of them: no task is saved
\* as ASSIGNED by both calls.
C28_AssignedByAtMostOne ==
  \A k \in DOMAIN db.tasks : ~(k \in calls[1].saved /\ k \in calls[2].saved)

=============================================================================
